---- MODULE Spec2Model ----
(***************************************************************************)
(* The profiler of node-newrelic, in its two variants:                     *)
(*   "inspector"  src/lib/profiler/index.js  (node:inspector Session,      *)
(*                callback style)                                          *)
(*   "pprof"      src/unnamed/part_000       (@datadog/pprof, async/await, *)
(*                selectable destination)                                  *)
(* One profiler instance is modelled.  The variant and the configuration   *)
(* are fixed by Init; every callback, timer firing and await continuation  *)
(* of the source is one action.                                            *)
(***************************************************************************)
EXTENDS Naturals, Integers, Sequences, FiniteSets, Bags

\* ------------------------------------------------------------------ bounds
MaxHarvests == 3   \* timer firings explored
MaxFaults == 1     \* engine / file operations that fail for an external reason
MaxDestOps == 1    \* calls of _setProfileDestination / _setOutputDirectory
MaxNodes == 3      \* nodes of a call tree
MaxSamples == 3    \* samples of a snapshot
MaxClock == 2      \* advances of Date.now()

\* ------------------------------------------------------- program constants
PROFILING_TYPE_CPU == 1
PROFILING_TYPE_HEAP == 2
DESTINATION_TYPE_NIL == 0
DESTINATION_TYPE_LOCAL_FILE == 1
DESTINATION_TYPE_INGEST_OTEL == 2
DESTINATION_TYPE_INGEST_MELT == 3

VARIABLES
  variant,           \* which of the two source files runs
  selectedProfiles,  \* this.selectedProfiles (bit set of PROFILING_TYPE_*)
  harvestSeq,        \* this.harvestSeq
  cpuTimer,          \* this.cpuTimer is an armed interval
  heapTimer,         \* this.heapTimer is an armed interval
  cpuEnabled,        \* engine: Profiler domain enabled (inspector)
  cpuRunning,        \* engine: the CPU profiler is recording
  heapRunning,       \* engine: the heap sampler is running
  session,           \* this.session: "none" | "connected" | "disconnected"
  queue,             \* inspector: posted messages whose callback has not run
  destination,       \* pprof: this.destination
  outputDirectory,   \* pprof: this.outputDirectory
  cpuFile,           \* pprof: this.cpuFile (0: undefined, else a handle id)
  heapFile,          \* pprof: this.heapFile
  handles,           \* pprof: handle id -> [name, open, closing, closed]
  tasks,             \* pprof: bag of async functions suspended at an await
  ticks,             \* inspector: callbacks given to process.nextTick, not yet run
  startState,        \* start(): "idle" | "noop" | "pending" | "ok" | "err"
  stopState,         \* stop() of the agent: "idle" | "pending" | "done" | "err"
  faults,            \* external failures injected so far
  fired,             \* timer firings so far
  destOps,           \* destination mutations called so far
  now,               \* Date.now()
  heapSampleStartTime, \* inspector: this.heapSampleStartTime
  snapshot,          \* the snapshot the latest marshalling was given
  events,            \* the recordCustomEvent calls of the latest harvest
  hist               \* observations used by the properties (no program state)

vars == <<variant, selectedProfiles, harvestSeq, cpuTimer, heapTimer, cpuEnabled,
          cpuRunning, heapRunning, session, queue, destination, outputDirectory,
          cpuFile, heapFile, handles, tasks, ticks, startState, stopState,
          faults, fired, destOps, now, heapSampleStartTime, snapshot, events, hist>>

\* The state as one record, so that a handler is a function from state to state.
Cur ==
  [variant |-> variant, selectedProfiles |-> selectedProfiles,
   harvestSeq |-> harvestSeq, cpuTimer |-> cpuTimer, heapTimer |-> heapTimer,
   cpuEnabled |-> cpuEnabled, cpuRunning |-> cpuRunning,
   heapRunning |-> heapRunning, session |-> session, queue |-> queue,
   destination |-> destination, outputDirectory |-> outputDirectory,
   cpuFile |-> cpuFile, heapFile |-> heapFile, handles |-> handles,
   tasks |-> tasks, ticks |-> ticks, startState |-> startState,
   stopState |-> stopState, faults |-> faults, fired |-> fired, destOps |-> destOps, now |-> now,
   heapSampleStartTime |-> heapSampleStartTime, snapshot |-> snapshot,
   events |-> events, hist |-> hist]

Apply(s) ==
  /\ variant' = s.variant
  /\ selectedProfiles' = s.selectedProfiles
  /\ harvestSeq' = s.harvestSeq
  /\ cpuTimer' = s.cpuTimer
  /\ heapTimer' = s.heapTimer
  /\ cpuEnabled' = s.cpuEnabled
  /\ cpuRunning' = s.cpuRunning
  /\ heapRunning' = s.heapRunning
  /\ session' = s.session
  /\ queue' = s.queue
  /\ destination' = s.destination
  /\ outputDirectory' = s.outputDirectory
  /\ cpuFile' = s.cpuFile
  /\ heapFile' = s.heapFile
  /\ handles' = s.handles
  /\ tasks' = s.tasks
  /\ ticks' = s.ticks
  /\ startState' = s.startState
  /\ stopState' = s.stopState
  /\ faults' = s.faults
  /\ fired' = s.fired
  /\ destOps' = s.destOps
  /\ now' = s.now
  /\ heapSampleStartTime' = s.heapSampleStartTime
  /\ snapshot' = s.snapshot
  /\ events' = s.events
  /\ hist' = [s.hist EXCEPT !.escaped = @ \/ s.hist.thrown, !.thrown = FALSE]

\* -------------------------------------------------------------- observations
HistInit ==
  [escaped |-> FALSE,       \* an exception or rejection nobody handles
   thrown |-> FALSE,        \* within a step: an exception is on its way up
   warned |-> FALSE,        \* an exception the Session caught: a process warning
   logged |-> {},           \* logger.error / logger.warn tags
   okHarvests |-> 0,        \* harvests that ran to their end
   failedHarvests |-> 0,    \* harvests that ended in an error
   stopOrder |-> [o \in {"agent", "rollback"} |-> <<>>],
   startOrder |-> <<>>,
   stopFailed |-> {},       \* engines whose stop failed during the agent's stop()
   startFailedAt |-> "none",\* engine whose start failed
   cpuLastStamp |-> -1,     \* harvest_seq stamped by the last successful CPU harvest
   cpuPending |-> -1,       \* harvest_seq stamped by a CPU harvest not yet ended
   pendingOthers |-> 0,     \* other harvests completed before cpuPending was stamped
   othersSince |-> 0,       \* other harvests completed since the last stamp
   gaps |-> {},             \* <<difference, others between>> of consecutive CPU harvests
   overlapped |-> FALSE,    \* two harvests of one engine were in flight together
   cleanFailure |-> FALSE,  \* a harvest failed with nothing external to blame
   beganAfterStop |-> FALSE,\* a harvest began after stop() had completed
   unreadyHarvest |-> FALSE,\* a harvest began during a switch to local files
                            \* with its file missing, closed or being closed
   marshalled |-> "none",   \* the engine whose snapshot was marshalled last
   nameCollision |-> FALSE, \* a rotation's open found its file name in use
   stopDuringStart |-> FALSE,\* stop() was called while start() was in progress
   heapStartedAt |-> 0,     \* Date.now() when the heap engine was started
   heapReadAt |-> <<>>,     \* Date.now() at each sample of the latest heap marshalling
   heapHarvestedAt |-> <<>>]\* Date.now() at the end of each heap harvest recorded

HasCpu(s) == s.selectedProfiles \in {PROFILING_TYPE_CPU, 3}
HasHeap(s) == s.selectedProfiles \in {PROFILING_TYPE_HEAP, 3}

\* An exception is thrown out of a callback, a timer function or a tick, or a
\* promise rejects with no handler attached.  The program catches none of
\* them: unless the caller of the callback does, it is uncaught when the step
\* ends.
Throw(s) == [s EXCEPT !.hist.thrown = TRUE]

logger_error(s, tag) == [s EXCEPT !.hist.logged = @ \cup {tag}]

\* ---------------------------------------------------- harvest bookkeeping
\* A CPU harvest hands records stamped harvest_seq = v to the sink.
cpuStamped(s, v) ==
  [s EXCEPT !.hist.cpuPending = v,
            !.hist.pendingOthers = s.hist.othersSince,
            !.hist.othersSince = 0]

\* A harvest ran to its end.  emitted: a CPU harvest whose records were stamped.
harvestOk(s, emitted) ==
  LET h == s.hist IN
  IF emitted
  THEN [s EXCEPT !.hist.okHarvests = @ + 1,
                 !.hist.gaps = IF h.cpuLastStamp = -1 THEN @
                               ELSE @ \cup {<<h.cpuPending - h.cpuLastStamp,
                                              h.pendingOthers>>},
                 !.hist.cpuLastStamp = h.cpuPending,
                 !.hist.cpuPending = -1]
  ELSE [s EXCEPT !.hist.okHarvests = @ + 1, !.hist.othersSince = @ + 1]

\* A harvest ended in an error.  external: the failing operation failed for a
\* reason outside the program (an injected fault).  stamped: a CPU harvest that
\* had already emitted its records.
harvestFailed(s, external, stamped) ==
  LET h == s.hist
      clean == /\ ~external
               /\ ~h.overlapped
               /\ s.stopState = "idle"
               /\ s.destOps = 0
      s1 == [s EXCEPT !.hist.failedHarvests = @ + 1,
                      !.hist.cleanFailure = @ \/ clean]
  IN IF stamped
     THEN [s1 EXCEPT !.hist.cpuPending = -1,
                     !.hist.othersSince = h.pendingOthers + h.othersSince]
     ELSE s1

\* ------------------------------------------------ inspector: marshalling
\* A snapshot of the inspector is a record; a node of a CPU snapshot is
\* [id, callFrame |-> [functionName, lineNumber], children |-> <<ids>>], and a
\* node of a heap snapshot is [id, selfSize, callFrame, children |-> <<nodes>>].
\* An event is a record whose field location holds the keys location.N: N is
\* in DOMAIN event.location exactly when the event has the key location.N.
\* The string `${name}:${line}` is the pair <<name, line>>.

\* No snapshot has been taken yet.
NoSnapshot == [kind |-> "none"]

\* Math.floor(0 / 0), and every product with it.
NaN == -1000000

Times(x, k) == IF x = NaN THEN NaN ELSE x * k

NoLocation == [i \in {} |-> <<"", 0>>]

\* nodeMap[id] after the first loop of _marshalCpuProfileToEvents (index.js
\* 402-408): the last node of `nodes` with that id.
CpuNode(nodes, id) ==
  nodes[CHOOSE i \in DOMAIN nodes :
          nodes[i].id = id /\ \A j \in DOMAIN nodes : nodes[j].id = id => j <= i]

\* node.parent after the second loop (index.js 412-426): the node, last in the
\* order of `nodes`, that lists id among its children; 0 for null.
CpuParent(nodes, id) ==
  LET ps == {i \in DOMAIN nodes :
               \E c \in DOMAIN CpuNode(nodes, nodes[i].id).children :
                 CpuNode(nodes, nodes[i].id).children[c] = id}
  IN IF ps = {} THEN 0
     ELSE nodes[CHOOSE i \in ps : \A j \in ps : j <= i].id

\* nodeMap with the parent links (index.js 398-426)
CpuNodeMap(nodes) ==
  [id \in {nodes[i].id : i \in DOMAIN nodes} |->
     [callFrame |-> CpuNode(nodes, id).callFrame, parent |-> CpuParent(nodes, id)]]

\* _locationFromCallFrame (index.js 556-561)
_locationFromCallFrame(frame) ==
  LET name == IF frame.callFrame.functionName # ""
              THEN frame.callFrame.functionName ELSE "(unknown)"
  IN <<name, frame.callFrame.lineNumber>>

\* for (node = nodeMap[id]; node; node = node.parent): the ids visited
RECURSIVE nodeToRoot(_, _)
nodeToRoot(nodeMap, id) ==
  IF id \notin DOMAIN nodeMap THEN <<>>
  ELSE <<id>> \o nodeToRoot(nodeMap, nodeMap[id].parent)

\* _addLocation keeping the order of the walk, the sample's own frame first.
_addLocation_leafFirst(event, sampleId, nodeMap) ==
  LET chain == nodeToRoot(nodeMap, sampleId)
      n == Len(chain)
  IN [event EXCEPT !.location =
        [i \in DOMAIN event.location \cup 0..(n - 1) |->
           IF i < n THEN _locationFromCallFrame(nodeMap[chain[i + 1]])
           ELSE event.location[i]]]

\* _addLocation (index.js 540-554)
_addLocation(event, sampleId, nodeMap) ==
  LET chain == nodeToRoot(nodeMap, sampleId)
      n == Len(chain)
  IN [event EXCEPT !.location =
        [i \in DOMAIN event.location \cup 0..(n - 1) |->
           IF i < n THEN _locationFromCallFrame(nodeMap[chain[n - i]])
           ELSE event.location[i]]]

\* The loop taking for sample i its own entry timeDeltas[i].
RECURSIVE marshalCpuSamples_ownDelta(_, _, _, _, _, _)
marshalCpuSamples_ownDelta(seq, profile, nodeMap, i, count, sum) ==
  IF i >= Len(profile.samples) THEN <<>>
  ELSE LET ahead == i < Len(profile.timeDeltas)
           delta == IF ahead THEN profile.timeDeltas[i + 1]
                    ELSE IF count = 0 THEN NaN ELSE sum \div count
           event == [harvest_seq |-> seq,
                     sample_seq |-> i,
                     sample_period_cpu_nanoseconds |-> Times(delta, 1000),
                     duration_ns |-> (profile.endTime - profile.startTime) * 1000,
                     time_ns |-> profile.startTime * 1000,
                     cpu_nanoseconds |-> Times(delta, 1000),
                     samples_count |-> Len(profile.samples),
                     location |-> NoLocation]
       IN <<_addLocation(event, profile.samples[i + 1], nodeMap)>>
            \o marshalCpuSamples_ownDelta(seq, profile, nodeMap, i + 1,
                                          IF ahead THEN count + 1 ELSE count,
                                          IF ahead THEN sum + delta ELSE sum)

\* The loop of _marshalCpuProfileToEvents (index.js 433-463) from sample i on;
\* i counts from 0 as in the source.
RECURSIVE marshalCpuSamples(_, _, _, _, _, _)
marshalCpuSamples(seq, profile, nodeMap, i, count, sum) ==
  IF i >= Len(profile.samples) THEN <<>>
  ELSE LET ahead == i < Len(profile.timeDeltas) - 1
           delta == IF ahead THEN profile.timeDeltas[i + 2]
                    ELSE IF count = 0 THEN NaN ELSE sum \div count
           event == [harvest_seq |-> seq,
                     sample_seq |-> i,
                     sample_period_cpu_nanoseconds |-> Times(delta, 1000),
                     duration_ns |-> (profile.endTime - profile.startTime) * 1000,
                     time_ns |-> profile.startTime * 1000,
                     cpu_nanoseconds |-> Times(delta, 1000),
                     samples_count |-> Len(profile.samples),
                     location |-> NoLocation]
       IN <<_addLocation(event, profile.samples[i + 1], nodeMap)>>
            \o marshalCpuSamples(seq, profile, nodeMap, i + 1,
                                 IF ahead THEN count + 1 ELSE count,
                                 IF ahead THEN sum + delta ELSE sum)

\* _marshalCpuProfileToEvents (index.js 390-466)
_marshalCpuProfileToEvents(seq, profile) ==
  marshalCpuSamples(seq, profile, CpuNodeMap(profile.nodes), 0, 0, 0)

\* for (const event of events) profiler.api.recordCustomEvent(type, event)
\* (index.js 311-313, 359-361): the calls, in their order.  object names the
\* object the sink is handed: the k-th event, which the marshaller built as an
\* object of its own (index.js 453-462, 496-505).
recordCustomEvents(eventType, evs) ==
  [k \in 1..Len(evs) |-> [type |-> eventType, attrs |-> evs[k], object |-> k]]

\* _buildHeapNodeMap (index.js 511-528): the entries added for the children
\* of `parent` from childIndex on, and for all below them.
RECURSIVE _buildHeapNodeMap(_, _, _)
_buildHeapNodeMap(parent, nodeMap, childIndex) ==
  IF childIndex >= Len(parent.children) THEN nodeMap
  ELSE LET child == parent.children[childIndex + 1]
           entry == [selfSize |-> child.selfSize, callFrame |-> child.callFrame,
                     parent |-> parent.id]
           m1 == [id \in DOMAIN nodeMap \cup {child.id} |->
                    IF id = child.id THEN entry ELSE nodeMap[id]]
           m2 == _buildHeapNodeMap(child, m1, 0)
       IN _buildHeapNodeMap(parent, m2, childIndex + 1)

\* nodeMap of _marshalHeapSamplingProfileToEvents (index.js 477-485); the head
\* has no parent.
HeapNodeMap(head) ==
  _buildHeapNodeMap(head,
    [id \in {head.id} |-> [selfSize |-> head.selfSize, callFrame |-> head.callFrame,
                           parent |-> 0]], 0)

RECURSIVE sumSelfSize(_, _)
sumSelfSize(nodeMap, chain) ==
  IF chain = <<>> THEN 0
  ELSE nodeMap[Head(chain)].selfSize + sumSelfSize(nodeMap, Tail(chain))

\* The sum that stops below the root.
_calculateInclusiveSize_belowRoot(nodeId, nodeMap) ==
  LET chain == nodeToRoot(nodeMap, nodeId)
  IN sumSelfSize(nodeMap, SubSeq(chain, 1, Len(chain) - 1))

\* _calculateInclusiveSize (index.js 530-538)
_calculateInclusiveSize(nodeId, nodeMap) ==
  sumSelfSize(nodeMap, nodeToRoot(nodeMap, nodeId))

\* _marshalHeapSamplingProfileToEvents (index.js 468-509); dateNow[k]: what
\* Date.now() returns at line 494 for the k-th sample.
_marshalHeapSamplingProfileToEvents(seq, startTime, profile, dateNow) ==
  LET nodeMap == HeapNodeMap(profile.profile.head)
      samples == profile.profile.samples
  IN [k \in 1..Len(samples) |->
        LET size == _calculateInclusiveSize(samples[k].nodeId, nodeMap) IN
        _addLocation([harvest_seq |-> seq,
                      sample_seq |-> k - 1,
                      sample_period_inuse_space_bytes |-> size,
                      duration_ns |-> (dateNow[k] - startTime) * 1000,
                      time_ns |-> startTime * 1000,
                      inuse_space_bytes |-> size,
                      samples_count |-> Len(samples),
                      location |-> NoLocation],
                     samples[k].nodeId, nodeMap)]

\* ------------------------------------------------ pprof: marshalling
\* A pprof profile is the record of the pprof format: sample (each with
\* locationId and value), location (each with id and line), function (each with
\* id and name), sampleType, periodType, period, timeNanos, durationNanos and
\* stringTable.strings.  A string of the string table is a sequence of
\* characters.  attrs is a record: metrics holds the keys named after the
\* sample types, location the keys location.N, sample_period the key
\* sample_period_<name> with its value.

WhiteSpace == {" "}

Letter == {"a", "b", "c", "f", "g", "h"}

\* _getString (part_000 430-432); index counts from 0
_getString(profile, index) == profile.stringTable.strings[index + 1]

\* _normalizeAttrNameFromSampleValueType (part_000 434-454): String.replace
\* with a regular expression without the g flag replaces the first match only;
\* the expression matches a white space, a letter or an underscore, and the
\* replacement changes a white space into an underscore.
_normalizeAttrNameFromSampleValueType(typeName, unitName) ==
  LET str == typeName \o <<"_">> \o unitName
      ms == {i \in DOMAIN str : str[i] \in WhiteSpace \cup Letter \cup {"_"}}
  IN IF ms = {} THEN str
     ELSE LET i == CHOOSE x \in ms : \A y \in ms : x <= y
          IN [str EXCEPT ![i] = IF str[i] \in WhiteSpace THEN "_" ELSE str[i]]

\* _getLocation (part_000 421-428) finds a location: it does not return null.
HasLocation(profile, locationId) ==
  \E i \in DOMAIN profile.location : profile.location[i].id = locationId

\* _getLocation (part_000 421-428)
_getLocation(profile, locationId) ==
  profile.location[CHOOSE i \in DOMAIN profile.location :
     /\ profile.location[i].id = locationId
     /\ \A j \in DOMAIN profile.location :
          profile.location[j].id = locationId => i <= j]

\* _locationFromLine (part_000 406-419)
_locationFromLine(profile, l) ==
  LET fs == {i \in DOMAIN profile.function : profile.function[i].id = l.functionId}
      functionName ==
        IF fs = {} THEN <<"(unknown)">>
        ELSE _getString(profile,
               profile.function[CHOOSE i \in fs : \A j \in fs : i <= j].name)
  IN <<functionName, l.line>>

\* _cleanupKeys deleting nothing.
_cleanupKeys_keepAll(attrs, keys, val) ==
  [attrs |-> attrs, keys |-> keys, val |-> 1 - val]

\* _cleanupKeys (part_000 395-404): attrs and keys after the deletions, and
\* the returned value.
_cleanupKeys(attrs, keys, val) ==
  LET stay == {k \in DOMAIN keys : keys[k] = val}
  IN [attrs |-> [attrs EXCEPT !.metrics =
                   [k \in DOMAIN attrs.metrics \ (DOMAIN keys \ stay) |-> attrs.metrics[k]]],
      keys |-> [k \in stay |-> keys[k]],
      val |-> 1 - val]

\* The key of the j-th value of a sample (part_000 358-361); j counts from 0.
metricKey(profile, j) ==
  _normalizeAttrNameFromSampleValueType(
    _getString(profile, profile.sampleType[j + 1].type),
    _getString(profile, profile.sampleType[j + 1].unit))

\* The loop over sample.value (part_000 357-365): attrs.metrics and u after it.
setMetrics(profile, sample, m, u, v) ==
  LET js == 0..(Len(sample.value) - 1)
      ks == {metricKey(profile, j) : j \in js}
      last(k) == CHOOSE j \in js :
                   /\ metricKey(profile, j) = k
                   /\ \A j2 \in js : metricKey(profile, j2) = k => j2 <= j
  IN [metrics |-> [k \in DOMAIN m \cup ks |->
                     IF k \in ks THEN sample.value[last(k) + 1] ELSE m[k]],
      u |-> [k \in DOMAIN u \cup ks |-> IF k \in ks THEN v ELSE u[k]]]

\* The first loop over the locations only: nothing beyond len is deleted.
setLocations_noClear(profile, sample, location, prevLoc) ==
  LET len == Len(sample.locationId)
      known(j) == /\ HasLocation(profile, sample.locationId[j + 1])
                  /\ Len(_getLocation(profile, sample.locationId[j + 1]).line) > 0
      dom == {j \in DOMAIN location \cup 0..(len - 1) : j < len => known(j)}
  IN [j \in dom |->
        IF j < len
        THEN _locationFromLine(profile,
               _getLocation(profile, sample.locationId[j + 1]).line[1])
        ELSE location[j]]

\* The two loops over the locations (part_000 371-385): attrs.location after them.
setLocations(profile, sample, location, prevLoc) ==
  LET len == Len(sample.locationId)
      known(j) == /\ HasLocation(profile, sample.locationId[j + 1])
                  /\ Len(_getLocation(profile, sample.locationId[j + 1]).line) > 0
      dom == {j \in DOMAIN location \cup 0..(len - 1) :
                IF j < len THEN known(j) ELSE ~(j < prevLoc)}
  IN [j \in dom |->
        IF j < len
        THEN _locationFromLine(profile,
               _getLocation(profile, sample.locationId[j + 1]).line[1])
        ELSE location[j]]

\* The loop of _recordSamples (part_000 352-392) from sample i on: the calls
\* of api.recordCustomEvent, in their order, each with the event type and the
\* attributes it is given.  Every call hands over the one object attrs
\* (object 0, part_000 339-347), whose contents the next sample overwrites.
RECURSIVE recordSamplesFrom(_, _, _, _, _, _, _, _)
recordSamplesFrom(eventType, profile, dest, i, attrs, u, v, prevLoc) ==
  IF i >= Len(profile.sample) THEN <<>>
  ELSE LET sample == profile.sample[i + 1]
           sm == setMetrics(profile, sample, attrs.metrics, u, v)
           a1 == [attrs EXCEPT !.sample_seq = i, !.metrics = sm.metrics]
           c == _cleanupKeys(a1, sm.u, v)
           a2 == [c.attrs EXCEPT !.location =
                    setLocations(profile, sample, c.attrs.location, prevLoc)]
       IN (IF dest = DESTINATION_TYPE_INGEST_MELT
           THEN <<[type |-> eventType, attrs |-> a2, object |-> 0]>> ELSE <<>>)
            \o recordSamplesFrom(eventType, profile, dest, i + 1, a2, c.keys, c.val,
                                 Len(sample.locationId))

\* Mutant: every record is handed over with the event type of a CPU harvest.
_recordSamples_cpuType(eventType, seq, profile, dest) ==
  recordSamplesFrom("ProfileCPU", profile, dest, 0,
    [harvest_seq |-> seq,
     time_ns |-> profile.timeNanos,
     duration_ns |-> profile.durationNanos,
     sample_period |->
       [key |-> _normalizeAttrNameFromSampleValueType(
                  _getString(profile, profile.periodType.type),
                  _getString(profile, profile.periodType.unit)),
        value |-> profile.period],
     sample_seq |-> -1,
     metrics |-> [k \in {} |-> 0],
     location |-> NoLocation],
    [k \in {} |-> 0], 0, 0)

\* _recordSamples (part_000 332-393)
_recordSamples(eventType, seq, profile, dest) ==
  recordSamplesFrom(eventType, profile, dest, 0,
    [harvest_seq |-> seq,
     time_ns |-> profile.timeNanos,
     duration_ns |-> profile.durationNanos,
     sample_period |->
       [key |-> _normalizeAttrNameFromSampleValueType(
                  _getString(profile, profile.periodType.type),
                  _getString(profile, profile.periodType.unit)),
        value |-> profile.period],
     sample_seq |-> -1,
     metrics |-> [k \in {} |-> 0],
     location |-> NoLocation],
    [k \in {} |-> 0], 0, 0)

\* ------------------------------------------------ marshalling: the inputs
\* Snapshots with at most MaxNodes nodes and MaxSamples samples.
SeqsUpTo(S, n) == UNION {[1..k -> S] : k \in 0..n}

\* The numbers of S in ascending order.
Ascending(S) ==
  CHOOSE q \in [1..Cardinality(S) -> S] :
    \A i, j \in 1..Cardinality(S) : i < j => q[i] < q[j]

\* The trees with nodes 1..n and root 1: the parent of each other node.
TreeShapes(n) == {par \in [2..n -> 1..n] : \A i \in 2..n : par[i] < i}

FunctionNames == <<"root", "foo", "bar", "baz", "qux">>

SelfSizes == <<1, 2, 4, 8, 16>>

DeltaValues == {5, 8}

\* callFrame of node i; the node unk has no function name (0: all have one).
CallFrameOf(i, unk) ==
  [functionName |-> IF i = unk THEN "" ELSE FunctionNames[i],
   lineNumber |-> 10 * (i - 1)]

\* Profiler.stop's profile: a flat list of nodes that name their children.
CpuSnapshot(n, par, unk, samples, timeDeltas) ==
  [kind |-> "cpu",
   nodes |-> [i \in 1..n |->
                [id |-> i, callFrame |-> CallFrameOf(i, unk),
                 children |-> Ascending({c \in 2..n : par[c] = i})]],
   samples |-> samples,
   startTime |-> 1,
   endTime |-> 3,
   timeDeltas |-> timeDeltas]

\* Every tree with every choice of samples, one delta per sample; and one
\* tree with every choice of deltas, up to one more than the samples.
CpuSnapshots ==
  {CpuSnapshot(t[1], t[2], t[3], t[4], [k \in DOMAIN t[4] |-> 5]) :
     t \in UNION {{<<m, q, u, sm>> : q \in TreeShapes(m), u \in {0, 2},
                                     sm \in SeqsUpTo(1..m, MaxSamples)} : m \in 1..MaxNodes}}
  \cup
  {CpuSnapshot(2, [i \in {2} |-> 1], 0, [k \in 1..t[1] |-> 2], t[2]) :
     t \in (0..MaxSamples) \X SeqsUpTo(DeltaValues, MaxSamples + 1)}

\* HeapProfiler.getSamplingProfile's head: the nodes hold their children.
RECURSIVE HeapTree(_, _, _, _)
HeapTree(n, par, unk, i) ==
  LET kids == Ascending({c \in 2..n : par[c] = i}) IN
  [id |-> i, selfSize |-> SelfSizes[i], callFrame |-> CallFrameOf(i, unk),
   children |-> [k \in DOMAIN kids |-> HeapTree(n, par, unk, kids[k])]]

HeapSnapshot(n, par, unk, nodeIds) ==
  [kind |-> "heap",
   profile |-> [head |-> HeapTree(n, par, unk, 1),
                samples |-> [k \in DOMAIN nodeIds |->
                               [nodeId |-> nodeIds[k], size |-> 1, ordinal |-> k]]]]

HeapSnapshots ==
  {HeapSnapshot(t[1], t[2], t[3], t[4]) :
     t \in UNION {{<<m, q, u, sm>> : q \in TreeShapes(m), u \in {0, 2},
                                     sm \in SeqsUpTo(1..m, MaxSamples)} : m \in 1..MaxNodes}}

\* The string table of a pprof profile: "", "a", "b", " c", "f", "g", "h".
PprofStrings == << <<>>, <<"a">>, <<"b">>, <<" ", "c">>, <<"f">>, <<"g">>, <<"h">> >>

\* The stacks of a pprof sample, its own frame first; no location has id 4.
PprofStacks == {<<>>, <<1>>, <<2, 1>>, <<3, 2, 1>>, <<4, 1>>}

\* The samples of a pprof profile: every stack with a value per sample type,
\* and two stacks with a value for the first sample type only.
PprofSamples ==
  {[locationId |-> l, value |-> <<7, 9>>] : l \in PprofStacks}
  \cup {[locationId |-> l, value |-> <<7>>] : l \in {<<>>, <<2, 1>>}}

\* time.stop's / heap.profile's profile.  The location noLine has no line and
\* the function noFn is not in the function table (0: there is none such).
PprofSnapshot(noLine, noFn, samples) ==
  [kind |-> "pprof",
   sample |-> samples,
   location |-> [i \in 1..3 |->
                   [id |-> i,
                    line |-> IF i = noLine THEN <<>>
                             ELSE <<[functionId |-> i, line |-> 10 * i]>>]],
   function |-> [k \in DOMAIN Ascending(1..3 \ {noFn}) |->
                   [id |-> Ascending(1..3 \ {noFn})[k],
                    name |-> 3 + Ascending(1..3 \ {noFn})[k]]],
   sampleType |-> <<[type |-> 1, unit |-> 2], [type |-> 3, unit |-> 2]>>,
   periodType |-> [type |-> 1, unit |-> 2],
   period |-> 6,
   timeNanos |-> 1000,
   durationNanos |-> 2000,
   stringTable |-> [strings |-> PprofStrings]]

PprofSnapshots ==
  {PprofSnapshot(noLine, noFn, samples) :
     <<noLine, noFn>> \in {<<0, 0>>, <<2, 1>>},
     samples \in SeqsUpTo(PprofSamples, MaxSamples)}

\* The snapshots the engines return in the runs of the whole profiler: two
\* samples, the deeper one first.
EngineCpuProfile ==
  CpuSnapshot(2, [i \in {2} |-> 1], 0, <<2, 1>>, <<5, 8>>)

EngineHeapProfile == HeapSnapshot(2, [i \in {2} |-> 1], 0, <<2, 1>>)

EnginePprofProfile ==
  PprofSnapshot(0, 0, <<[locationId |-> <<2, 1>>, value |-> <<7, 9>>],
                        [locationId |-> <<1>>, value |-> <<7, 9>>]>>)

\* The sink has received evs, marshalled from the snapshot p of engine eng.
recorded(s, eng, p, evs) ==
  [s EXCEPT !.snapshot = p, !.events = evs, !.hist.marshalled = eng]

\* ------------------------------------------------ inspector: the session
\* session.post: the message waits in the session until its callback runs.
\* Posting with no session (undefined) or on a disconnected one throws.
post(s, ctx, cmd, o) ==
  IF s.session = "connected"
  THEN [s EXCEPT !.queue = Append(@, [ctx |-> ctx, cmd |-> cmd, o |-> o])]
  ELSE Throw(s)

\* process.nextTick(callback): the callback is queued and the caller goes on;
\* it runs once the running code has returned (index.js 130, 173, 203, 243).
process_nextTick(s, fn, o) ==
  [s EXCEPT !.ticks = Append(@, [fn |-> fn, o |-> o])]

\* The engine refuses a command its state does not allow.
EngineRefuses(s, cmd) ==
  CASE cmd = "Profiler.start" -> ~s.cpuEnabled
    [] cmd = "Profiler.stop" -> ~s.cpuRunning
    [] cmd = "HeapProfiler.stopSampling" -> ~s.heapRunning
    [] cmd = "HeapProfiler.getSamplingProfile" -> ~s.heapRunning
    [] OTHER -> FALSE

\* The engine's effect of a command that succeeds.
Exec(s, cmd) ==
  CASE cmd = "Profiler.enable" -> [s EXCEPT !.cpuEnabled = TRUE]
    [] cmd = "Profiler.start" -> [s EXCEPT !.cpuRunning = TRUE]
    [] cmd = "Profiler.stop" -> [s EXCEPT !.cpuRunning = FALSE]
    [] cmd = "Profiler.disable" -> [s EXCEPT !.cpuEnabled = FALSE, !.cpuRunning = FALSE]
    [] cmd = "HeapProfiler.startSampling" -> [s EXCEPT !.heapRunning = TRUE]
    [] cmd = "HeapProfiler.stopSampling" -> [s EXCEPT !.heapRunning = FALSE]
    [] cmd = "HeapProfiler.disable" -> [s EXCEPT !.heapRunning = FALSE]
    [] OTHER -> s

\* session.disconnect(): the session's agents are torn down; callbacks still
\* pending are called with an error (they stay in the queue until they run).
session_disconnect(s) ==
  [s EXCEPT !.session = "disconnected", !.cpuEnabled = FALSE,
            !.cpuRunning = FALSE, !.heapRunning = FALSE]

\* The outcomes of an operation on an external collaborator: it may fail for
\* an external reason while the fault budget lasts.
FaultChoice == {FALSE} \cup (IF faults < MaxFaults THEN {TRUE} ELSE {})

\* The head of the queue answers: the state after the engine acted, and the
\* error its callback receives ("none", "fault", "refused", "closed").
Answer(f) ==
  LET m == Head(queue)
      s0 == [Cur EXCEPT !.queue = Tail(@), !.faults = IF f THEN @ + 1 ELSE @]
      e == IF s0.session # "connected" THEN "closed"
           ELSE IF f THEN "fault"
           ELSE IF EngineRefuses(s0, m.cmd) THEN "refused"
           ELSE "none"
  IN [s |-> IF e = "none" THEN Exec(s0, m.cmd) ELSE s0, e |-> e, o |-> m.o]

\* The callback of a session.post has run and left s.  The Session calls the
\* callback of an answer inside try/catch and turns an exception thrown out
\* of it into a process warning (process.emitWarning).  The callback of a
\* message still pending at disconnect is called by process.nextTick, where
\* nothing catches.
Session_onMessage(a, s) ==
  IF a.e # "closed" /\ s.hist.thrown
  THEN [s EXCEPT !.hist.thrown = FALSE, !.hist.warned = TRUE]
  ELSE s

Pending(ctx, cmd) ==
  /\ variant = "inspector"
  /\ queue # <<>>
  /\ Head(queue).ctx = ctx
  /\ Head(queue).cmd = cmd

\* ------------------------------------------------ inspector: stop()
stopIssued(s, o, eng) == [s EXCEPT !.hist.stopOrder[o] = Append(@, eng)]

stopEngineFailed(s, o, eng) ==
  LET s1 == logger_error(s, IF eng = "cpu" THEN "stop.cpu" ELSE "stop.heap") IN
  IF o = "agent" THEN [s1 EXCEPT !.hist.stopFailed = @ \cup {eng}] ELSE s1

\* stop: afterStopHeapProfiler (index.js 107-120)
stop_afterStopHeapProfiler(s, o, err) ==
  LET s1 == IF err THEN stopEngineFailed(s, o, "heap") ELSE s
      s2 == [s1 EXCEPT !.heapTimer = FALSE]
  IN IF s2.session = "none"
     THEN Throw(s2)                      \* profiler.session is undefined
     ELSE LET s3 == session_disconnect(s2) IN
          IF o = "rollback"
          THEN Throw(s3)                 \* stop() was called with no callback
          ELSE [s3 EXCEPT !.stopState = "done"]

_maybeStopHeapProfiler(s, o) ==
  IF ~HasHeap(s)
  THEN process_nextTick(s, "stop.afterStopHeapProfiler", o)
  ELSE post(stopIssued(s, o, "heap"), "stop", "HeapProfiler.stopSampling", o)

\* stop: afterStopCpuProfiler (index.js 99-121)
stop_afterStopCpuProfiler(s, o, err) ==
  LET s1 == IF err THEN stopEngineFailed(s, o, "cpu") ELSE s
      s2 == [s1 EXCEPT !.cpuTimer = FALSE]
  IN _maybeStopHeapProfiler(s2, o)

_maybeStopCpuProfiler(s, o) ==
  IF ~HasCpu(s)
  THEN process_nextTick(s, "stop.afterStopCpuProfiler", o)
  ELSE post(stopIssued(s, o, "cpu"), "stop", "Profiler.stop", o)

\* Mutant: stop() begins with the heap engine.
stop_heapFirst(s, o) == _maybeStopHeapProfiler(s, o)

\* stop (index.js 94-122)
stop_inspector(s, o) == _maybeStopCpuProfiler(s, o)

\* ------------------------------------------------ inspector: start()
\* initialize: afterStartProfiler
afterStartProfiler(s, err) ==
  IF err
  THEN [logger_error(s, "start") EXCEPT !.startState = "err"]
  ELSE [s EXCEPT !.startState = "ok"]

_scheduleHarvests(s) ==
  [s EXCEPT !.cpuTimer = @ \/ HasCpu(s), !.heapTimer = @ \/ HasHeap(s)]

\* start: afterStartHeapProfiler (index.js 78-90)
start_afterStartHeapProfiler(s, err) ==
  IF err
  THEN stop_inspector(afterStartProfiler([s EXCEPT !.hist.startFailedAt = "heap"], TRUE),
                      "rollback")
  ELSE afterStartProfiler(_scheduleHarvests(s), FALSE)

startIssued(s, eng) == [s EXCEPT !.hist.startOrder = Append(@, eng)]

\* _maybeStartHeapProfiler: afterStartHeapProfiler(err) (index.js 220-232)
maybeStart_afterStartHeapProfiler(s, e) ==
  IF e # "none"
  THEN start_afterStartHeapProfiler(logger_error(s, "start.heap"), TRUE)
  ELSE start_afterStartHeapProfiler(
         [s EXCEPT !.heapSampleStartTime = s.now, !.hist.heapStartedAt = s.now],
         FALSE)

_maybeStartHeapProfiler(s) ==
  IF ~HasHeap(s)
  THEN process_nextTick(s, "start.afterStartHeapProfiler", "-")
  ELSE post(startIssued(s, "heap"), "start", "HeapProfiler.enable", "-")

\* start: afterStartCpuProfiler (index.js 72-91)
start_afterStartCpuProfiler(s, err) ==
  IF err
  THEN afterStartProfiler([s EXCEPT !.hist.startFailedAt = "cpu"], TRUE)
  ELSE _maybeStartHeapProfiler(s)

_maybeStartCpuProfiler(s) ==
  IF ~HasCpu(s)
  THEN process_nextTick(s, "start.afterStartCpuProfiler", "-")
  ELSE post(startIssued(s, "cpu"), "start", "Profiler.setSamplingInterval", "-")

start_inspector(s) ==
  IF s.selectedProfiles = 0
  THEN [s EXCEPT !.startState = "noop"]
  ELSE _maybeStartCpuProfiler([s EXCEPT !.session = "connected", !.startState = "pending"])

\* The callback process.nextTick was given runs, with no error.
runTick(s, t) ==
  CASE t.fn = "start.afterStartCpuProfiler" -> start_afterStartCpuProfiler(s, FALSE)
    [] t.fn = "start.afterStartHeapProfiler" -> start_afterStartHeapProfiler(s, FALSE)
    [] t.fn = "stop.afterStopCpuProfiler" -> stop_afterStopCpuProfiler(s, t.o, FALSE)
    [] t.fn = "stop.afterStopHeapProfiler" -> stop_afterStopHeapProfiler(s, t.o, FALSE)

\* ------------------------------------------------ inspector: harvests
HarvestCmds(eng) ==
  IF eng = "cpu" THEN {"Profiler.stop", "Profiler.start"}
  ELSE {"HeapProfiler.getSamplingProfile"}

\* A timer function begins a harvest of eng.
harvestBegins(s, eng, inFlight) ==
  [s EXCEPT !.fired = @ + 1,
            !.hist.overlapped = @ \/ inFlight > 0,
            !.hist.beganAfterStop = @ \/ s.stopState \in {"done", "err"}]

InFlightInspector(q, eng) ==
  Cardinality({i \in DOMAIN q : q[i].ctx = "harvest" /\ q[i].cmd \in HarvestCmds(eng)})

_collectCpuSamples(s) ==
  post(harvestBegins(s, "cpu", InFlightInspector(s.queue, "cpu")),
       "harvest", "Profiler.stop", "-")

_collectHeapSamples(s) ==
  post(harvestBegins(s, "heap", InFlightInspector(s.queue, "heap")),
       "harvest", "HeapProfiler.getSamplingProfile", "-")

\* _collectCpuSamples: afterStopCpuProfiler(err, { profile }) (index.js 294-330).
\* With an error the callback is called with that one argument: destructuring
\* the missing second one throws before the err test, and line 299 never
\* logs.  marshal: _marshalCpuProfileToEvents or the sink throws.
collect_afterStopCpuProfiler(s, e, marshal) ==
  IF e # "none"
  THEN Throw(harvestFailed(s, e = "fault", FALSE))
  ELSE IF marshal
       THEN Throw(harvestFailed(s, TRUE, FALSE))
       ELSE post(cpuStamped(
                   recorded(s, "cpu", EngineCpuProfile,
                            recordCustomEvents("ProfileCPU",
                              _marshalCpuProfileToEvents(s.harvestSeq, EngineCpuProfile))),
                   s.harvestSeq),
                 "harvest", "Profiler.start", "-")

\* Mutant: harvestSeq is incremented before the err test of the restart.
collect_afterStartCpuProfiler_incrementsFirst(s, e) ==
  LET s1 == [s EXCEPT !.harvestSeq = @ + 1] IN
  IF e # "none"
  THEN logger_error(harvestFailed(s1, e = "fault", TRUE), "harvest.cpu")
  ELSE harvestOk(s1, TRUE)

\* _collectCpuSamples: afterStartCpuProfiler(err) (index.js 317-329)
collect_afterStartCpuProfiler(s, e) ==
  IF e # "none"
  THEN logger_error(harvestFailed(s, e = "fault", TRUE), "harvest.cpu")
  ELSE harvestOk([s EXCEPT !.harvestSeq = @ + 1], TRUE)

\* The clock is read n times from time `from` on: what Date.now() returns at
\* each reading, never less than at the reading before.
ClockReadings(from, n) ==
  {r \in [1..n -> from..MaxClock] : \A i \in 1..(n - 1) : r[i] <= r[i + 1]}

\* The readings of one heap harvest: one per sample of the snapshot (line 494)
\* and one at line 364.
HeapHarvestReadings(s) ==
  ClockReadings(s.now, Len(EngineHeapProfile.profile.samples) + 1)

\* The heap harvest without the new measuring period (index.js 351-361): the
\* events are marshalled, each sample with its own reading of the clock, and
\* recorded; r[Len(r)] is the reading at line 364.
heapMarshalled(s, r) ==
  LET dateNow == SubSeq(r, 1, Len(r) - 1) IN
  [recorded(s, "heap", EngineHeapProfile,
            recordCustomEvents("ProfileHeap",
              _marshalHeapSamplingProfileToEvents(
                s.harvestSeq, s.heapSampleStartTime, EngineHeapProfile, dateNow)))
     EXCEPT !.now = r[Len(r)],
            !.hist.heapReadAt = dateNow,
            !.hist.heapHarvestedAt = Append(@, r[Len(r)])]

\* Mutant: heapSampleStartTime keeps the time of the engine's start.
heapRecorded_noReset(s, r) == heapMarshalled(s, r)

\* The heap harvest from the marshalling to line 364: the records are handed
\* to the sink, and a new measuring period begins at the last reading.
heapRecorded(s, r) ==
  [heapMarshalled(s, r) EXCEPT !.heapSampleStartTime = r[Len(r)]]

\* Mutant: the heap harvest emits its records and leaves harvestSeq alone.
collect_afterGetSamplingProfile_noIncrement(s, e, marshal, r) ==
  IF e # "none"
  THEN logger_error(harvestFailed(s, e = "fault", FALSE), "harvest.heap")
  ELSE IF marshal
       THEN Throw(harvestFailed(s, TRUE, FALSE))
       ELSE harvestOk(heapRecorded(s, r), FALSE)

\* _collectHeapSamples: afterGetSamplingProfile(err, profile) (index.js
\* 341-365); r: the readings of Date.now() the callback makes.
collect_afterGetSamplingProfile(s, e, marshal, r) ==
  IF e # "none"
  THEN logger_error(harvestFailed(s, e = "fault", FALSE), "harvest.heap")
  ELSE IF marshal
       THEN Throw(harvestFailed(s, TRUE, FALSE))
       ELSE harvestOk([heapRecorded(s, r) EXCEPT !.harvestSeq = @ + 1], FALSE)

\* ------------------------------------------------ inspector: actions
\* agent.once('started')
afterStart ==
  /\ variant = "inspector"
  /\ startState = "idle"
  /\ Apply(start_inspector(Cur))

\* agent.once('stopped')
afterStop ==
  /\ variant = "inspector"
  /\ stopState = "idle"
  /\ Apply(stop_inspector([Cur EXCEPT !.stopState = "pending",
                                       !.hist.stopDuringStart = (startState = "pending")],
                          "agent"))

afterSetSamplingInterval ==
  /\ Pending("start", "Profiler.setSamplingInterval")
  /\ \E f \in FaultChoice :
       LET a == Answer(f) IN
       Apply(Session_onMessage(a, IF a.e # "none"
             THEN start_afterStartCpuProfiler(logger_error(a.s, "start.cpu"), TRUE)
             ELSE post(a.s, "start", "Profiler.enable", "-")))

afterEnableCpuProfiler ==
  /\ Pending("start", "Profiler.enable")
  /\ \E f \in FaultChoice :
       LET a == Answer(f) IN
       Apply(Session_onMessage(a, IF a.e # "none"
             THEN start_afterStartCpuProfiler(logger_error(a.s, "start.cpu"), TRUE)
             ELSE post(a.s, "start", "Profiler.start", "-")))

afterStartCpuProfiler ==
  /\ Pending("start", "Profiler.start")
  /\ \E f \in FaultChoice :
       LET a == Answer(f) IN
       Apply(Session_onMessage(a, IF a.e # "none"
             THEN start_afterStartCpuProfiler(logger_error(a.s, "start.cpu"), TRUE)
             ELSE start_afterStartCpuProfiler(a.s, FALSE)))

afterEnableHeapProfiler ==
  /\ Pending("start", "HeapProfiler.enable")
  /\ \E f \in FaultChoice :
       LET a == Answer(f) IN
       Apply(Session_onMessage(a, IF a.e # "none"
             THEN start_afterStartHeapProfiler(logger_error(a.s, "start.heap"), TRUE)
             ELSE post(a.s, "start", "HeapProfiler.startSampling", "-")))

afterStartHeapProfiler ==
  /\ Pending("start", "HeapProfiler.startSampling")
  /\ \E f \in FaultChoice :
       LET a == Answer(f) IN Apply(Session_onMessage(a, maybeStart_afterStartHeapProfiler(a.s, a.e)))

\* Date.now() has advanced.
tick ==
  /\ now < MaxClock
  /\ Apply([Cur EXCEPT !.now = @ + 1])

afterStopCpuProfiler ==
  /\ Pending("stop", "Profiler.stop")
  /\ \E f \in FaultChoice :
       LET a == Answer(f) IN
       Apply(Session_onMessage(a, IF a.e # "none"
             THEN stop_afterStopCpuProfiler(a.s, a.o, TRUE)
             ELSE post(a.s, "stop", "Profiler.disable", a.o)))

afterDisableCpuProfiler ==
  /\ Pending("stop", "Profiler.disable")
  /\ \E f \in FaultChoice :
       LET a == Answer(f) IN
       Apply(Session_onMessage(a, stop_afterStopCpuProfiler(a.s, a.o, a.e # "none")))

afterStopHeapProfiler ==
  /\ Pending("stop", "HeapProfiler.stopSampling")
  /\ \E f \in FaultChoice :
       LET a == Answer(f) IN
       Apply(Session_onMessage(a, IF a.e # "none"
             THEN stop_afterStopHeapProfiler(a.s, a.o, TRUE)
             ELSE post(a.s, "stop", "HeapProfiler.disable", a.o)))

afterDisableHeapProfiler ==
  /\ Pending("stop", "HeapProfiler.disable")
  /\ \E f \in FaultChoice :
       LET a == Answer(f) IN
       Apply(Session_onMessage(a, stop_afterStopHeapProfiler(a.s, a.o, a.e # "none")))

\* The oldest callback given to process.nextTick runs.
nextTick ==
  /\ variant = "inspector"
  /\ ticks # <<>>
  /\ Apply(runTick([Cur EXCEPT !.ticks = Tail(@)], Head(ticks)))

\* setInterval(_harvestCpuSamples, cpuReportInterval); a timer fires only when
\* no process.nextTick callback is waiting.
_harvestCpuSamples ==
  /\ variant = "inspector"
  /\ ticks = <<>>
  /\ cpuTimer
  /\ fired < MaxHarvests
  /\ Apply(_collectCpuSamples(Cur))

_harvestHeapSamples ==
  /\ variant = "inspector"
  /\ ticks = <<>>
  /\ heapTimer
  /\ fired < MaxHarvests
  /\ Apply(_collectHeapSamples(Cur))

harvest_afterStopCpuProfiler ==
  /\ Pending("harvest", "Profiler.stop")
  /\ \E f \in FaultChoice, m \in FaultChoice :
       /\ ~(f /\ m)
       /\ LET a == Answer(f) IN
          /\ (a.e # "none") => ~m
          /\ Apply(Session_onMessage(a, collect_afterStopCpuProfiler(
                     [a.s EXCEPT !.faults = IF m THEN @ + 1 ELSE @], a.e, m)))

harvest_afterStartCpuProfiler ==
  /\ Pending("harvest", "Profiler.start")
  /\ \E f \in FaultChoice :
       LET a == Answer(f) IN Apply(Session_onMessage(a, collect_afterStartCpuProfiler(a.s, a.e)))

afterGetSamplingProfile ==
  /\ Pending("harvest", "HeapProfiler.getSamplingProfile")
  /\ \E f \in FaultChoice, m \in FaultChoice, r \in HeapHarvestReadings(Cur) :
       /\ ~(f /\ m)
       /\ LET a == Answer(f) IN
          /\ (a.e # "none") => ~m
          /\ Apply(Session_onMessage(a, collect_afterGetSamplingProfile(
                     [a.s EXCEPT !.faults = IF m THEN @ + 1 ELSE @], a.e, m, r)))

\* ------------------------------------------------ pprof: files and tasks
\* A file name: <<directory, engine, suffix>>, suffix -1 for the base name
\* (cpu.pprof) and n for cpu.pprof<n>.
FileName(dir, eng, suffix) == <<dir, eng, suffix>>

Exists(s, name) == \E i \in DOMAIN s.handles : s.handles[i].name = name

\* A FileHandle of node:fs/promises, as open() returns it.  open: the handle
\* has its file descriptor; closing: the functions that await its close
\* promise, in the order of their calls of close(); closed: the descriptor has
\* been closed.
FileHandle(name) == [name |-> name, open |-> TRUE, closing |-> <<>>, closed |-> FALSE]

\* The handle has its descriptor: it accepts a write, also while a close of
\* it waits for a pending write.  Without the descriptor a write is refused
\* (EBADF) and close() returns a resolved promise.
IsOpen(s, h) == h \in DOMAIN s.handles /\ s.handles[h].open

\* An async function suspended at an await: fn the function, pc the awaited
\* operation, h the handle it acts on, name the file it opens, arg its argument.
Task(fn, pc, h, name, arg) == [fn |-> fn, pc |-> pc, h |-> h, name |-> name, arg |-> arg]

spawn(s, task) == [s EXCEPT !.tasks = @ (+) SetToBag({task})]

resume(s, task) == [s EXCEPT !.tasks = @ (-) SetToBag({task})]

\* The writes pending on handle h.
PendingWrites(s, h) == {t \in BagToSet(s.tasks) : t.pc = "write" /\ t.h = h}

\* `await filehandle.close()` on a handle that has its descriptor; task is the
\* caller, suspended at the await.  With no write pending the descriptor is
\* released at once and the close begins.  With a write pending the close is
\* deferred: the handle keeps its descriptor until that write has ended.  A
\* second caller is given the promise of the first.
FileHandle_close(s, h, task) ==
  spawn([s EXCEPT !.handles[h].open = PendingWrites(s, h) # {},
                  !.handles[h].closing = Append(@, task)],
        task)

\* A write on h has ended: with no other write pending, a deferred close of h
\* begins and the descriptor is released.
FileHandle_unref(s, h) ==
  IF IsOpen(s, h) /\ s.handles[h].closing # <<>> /\ PendingWrites(s, h) = {}
  THEN [s EXCEPT !.handles[h].open = FALSE]
  ELSE s

\* The close of h is under way: the descriptor is released and the close
\* promise has not settled.
Closing(s, h) == ~s.handles[h].open /\ s.handles[h].closing # <<>>

InFlightPprof(b, eng) ==
  LET fn == IF eng = "cpu" THEN "_collectCpuSamples" ELSE "_collectHeapSamples"
      ts == {x \in BagToSet(b) : x.fn = fn}
  IN BagCardinality([x \in ts |-> b[x]])

\* The promise of an async function rejects.  start() and stop() are called by
\* initialize without await and the close in _setOutputDirectory is not awaited:
\* nobody handles their rejection.  A rejection of _setProfileDestination or
\* _setOutputDirectory goes to their caller.
reject(s, fn) ==
  CASE fn = "start" -> Throw([s EXCEPT !.startState = "err"])
    [] fn = "stop" -> Throw([s EXCEPT !.stopState = "err"])
    [] fn = "detached" -> Throw(s)
    [] OTHER -> s

_scheduleHarvests_pprof(s) ==
  [s EXCEPT !.cpuTimer = @ \/ HasCpu(s), !.heapTimer = @ \/ HasHeap(s)]

\* What follows `await this._openLocalFiles()` in fn.
afterOpenLocalFiles(s, fn) ==
  IF fn = "start"
  THEN [_scheduleHarvests_pprof(s) EXCEPT !.startState = "ok"]
  ELSE s

\* _openLocalFiles from its heap half on (part_000 267-275)
openLocalFiles_heap(s, fn) ==
  IF HasHeap(s)
  THEN spawn(s, Task(fn, "open.heap", 0, FileName(s.outputDirectory, "heap", -1), 0))
  ELSE afterOpenLocalFiles(s, fn)

\* _openLocalFiles (part_000 256-276)
_openLocalFiles(s, fn) ==
  IF HasCpu(s)
  THEN spawn(s, Task(fn, "open.cpu", 0, FileName(s.outputDirectory, "cpu", -1), 0))
  ELSE openLocalFiles_heap(s, fn)

\* What follows `await this._closeLocalFiles()` in fn.
afterCloseLocalFiles(s, fn, arg) ==
  CASE fn = "stop" -> [s EXCEPT !.stopState = "done"]
    [] fn = "_setProfileDestination" -> [s EXCEPT !.destination = arg]
    [] OTHER -> s

\* _closeLocalFiles from its heap half on (part_000 287-289); this.heapFile is
\* read when the call is made.  The close of a handle without its descriptor
\* is resolved already, and the function goes on.
closeLocalFiles_heap(s, fn, arg) ==
  IF HasHeap(s)
  THEN IF s.heapFile = 0
       THEN reject(s, fn)
       ELSE IF IsOpen(s, s.heapFile)
       THEN FileHandle_close(s, s.heapFile,
                             Task(fn, "close.heap", s.heapFile, <<>>, arg))
       ELSE afterCloseLocalFiles(s, fn, arg)
  ELSE afterCloseLocalFiles(s, fn, arg)

\* _closeLocalFiles (part_000 278-290)
_closeLocalFiles(s, fn, arg) ==
  IF s.destination # DESTINATION_TYPE_LOCAL_FILE
  THEN afterCloseLocalFiles(s, fn, arg)
  ELSE IF HasCpu(s)
       THEN IF s.cpuFile = 0
            THEN reject(s, fn)
            ELSE IF IsOpen(s, s.cpuFile)
            THEN FileHandle_close(s, s.cpuFile,
                                  Task(fn, "close.cpu", s.cpuFile, <<>>, arg))
            ELSE closeLocalFiles_heap(s, fn, arg)
       ELSE closeLocalFiles_heap(s, fn, arg)

\* ------------------------------------------------ pprof: start() and stop()
\* start (part_000 66-91); f1: time.start() throws, f2: heap.start() throws.
start_pprof(s, f1, f2) ==
  IF s.selectedProfiles = 0
  THEN [s EXCEPT !.startState = "noop"]
  ELSE
    LET s0 == [s EXCEPT !.startState = "pending"]
        s1 == IF HasCpu(s0) THEN startIssued(s0, "cpu") ELSE s0
    IN IF HasCpu(s0) /\ f1
       THEN reject([s1 EXCEPT !.hist.startFailedAt = "cpu"], "start")
       ELSE
         LET s2 == IF HasCpu(s1) THEN [s1 EXCEPT !.cpuRunning = TRUE] ELSE s1
             s3 == IF HasHeap(s2) THEN startIssued(s2, "heap") ELSE s2
         IN IF HasHeap(s2) /\ f2
            THEN reject([s3 EXCEPT !.hist.startFailedAt = "heap"], "start")
            ELSE
              LET s4 == IF HasHeap(s3) THEN [s3 EXCEPT !.heapRunning = TRUE] ELSE s3
              IN IF s4.destination = DESTINATION_TYPE_LOCAL_FILE
                 THEN _openLocalFiles(s4, "start")
                 ELSE afterOpenLocalFiles(s4, "start")

\* stop (part_000 93-111); f1: time.stop(false) throws, f2: heap.stop() throws.
\* time.stop throws by itself when the profiler is not started.
stop_pprof(s, f1, f2) ==
  LET s0 == [s EXCEPT !.stopState = "pending"]
      s1 == IF HasCpu(s0) THEN stopIssued(s0, "agent", "cpu") ELSE s0
  IN IF HasCpu(s0) /\ (f1 \/ ~s0.cpuRunning)
     THEN reject([s1 EXCEPT !.hist.stopFailed = @ \cup {"cpu"}], "stop")
     ELSE
       LET s2 == IF HasCpu(s1)
                 THEN [s1 EXCEPT !.cpuRunning = FALSE, !.cpuTimer = FALSE]
                 ELSE s1
           s3 == IF HasHeap(s2) THEN stopIssued(s2, "agent", "heap") ELSE s2
       IN IF HasHeap(s2) /\ f2
          THEN reject([s3 EXCEPT !.hist.stopFailed = @ \cup {"heap"}], "stop")
          ELSE
            LET s4 == IF HasHeap(s3)
                      THEN [s3 EXCEPT !.heapRunning = FALSE, !.heapTimer = FALSE]
                      ELSE s3
            IN _closeLocalFiles(s4, "stop", 0)

\* ------------------------------------------------ pprof: destination
\* _setProfileDestination (part_000 227-243)
_setProfileDestination(s, d) ==
  LET s0 == [s EXCEPT !.destOps = @ + 1] IN
  IF d \in {DESTINATION_TYPE_INGEST_OTEL, DESTINATION_TYPE_INGEST_MELT,
            DESTINATION_TYPE_NIL}
  THEN IF s0.destination = DESTINATION_TYPE_LOCAL_FILE
       THEN _closeLocalFiles(s0, "_setProfileDestination", d)
       ELSE [s0 EXCEPT !.destination = d]
  ELSE [s0 EXCEPT !.hist.logged = @ \cup {"destination"}]

\* _setOutputDirectory (part_000 245-254): the close is started and not awaited.
_setOutputDirectory(s, dir) ==
  LET s0 == [s EXCEPT !.destOps = @ + 1]
      s1 == _closeLocalFiles(s0, "detached", 0)
      s2 == [s1 EXCEPT !.destination = DESTINATION_TYPE_LOCAL_FILE,
                       !.outputDirectory = dir]
  IN _openLocalFiles(s2, "_setOutputDirectory")

\* ------------------------------------------------ pprof: harvests
EngineOf(fn) == IF fn = "_collectCpuSamples" THEN "cpu" ELSE "heap"

FileOf(s, eng) == IF eng = "cpu" THEN s.cpuFile ELSE s.heapFile

\* The catch of the timer function (part_000 121-124, 134-137).
harvestCaught(s, eng, external) ==
  logger_error(harvestFailed(s, external, FALSE),
               IF eng = "cpu" THEN "harvest.cpu" ELSE "harvest.heap")

\* The timer function after `await profiler._collect...Samples()` returned.
harvestReturned(s, emitted) ==
  harvestOk([s EXCEPT !.harvestSeq = @ + 1], emitted)

\* _setOutputDirectory has been called and has not settled: its detached close
\* or its opens are pending.
SwitchPending(s) ==
  \E t \in BagToSet(s.tasks) : t.fn \in {"_setOutputDirectory", "detached"}

\* The engine's file field holds a handle that has its descriptor and on
\* which close() has not been called.
FileReady(s, eng) ==
  /\ IsOpen(s, FileOf(s, eng))
  /\ s.handles[FileOf(s, eng)].closing = <<>>

\* _collectCpuSamples / _collectHeapSamples up to their first await
\* (part_000 143-183, 185-225).  f: time.stop(true) / heap.profile() throws,
\* m: _recordSamples throws.  In `this.cpuFile.write(await encode(profile))`
\* this.cpuFile.write is read before encode is called: the handle is the one
\* the field holds now, and an undefined field throws here.
collectSamples_pprof(s, eng, f, m) ==
  LET fn == IF eng = "cpu" THEN "_collectCpuSamples" ELSE "_collectHeapSamples"
      sb == harvestBegins(s, eng, InFlightPprof(s.tasks, eng))
      s0 == [sb EXCEPT !.hist.unreadyHarvest =
               @ \/ (/\ s.destination = DESTINATION_TYPE_LOCAL_FILE
                      /\ SwitchPending(s)
                      /\ ~FileReady(s, eng))]
      running == IF eng = "cpu" THEN s0.cpuRunning ELSE s0.heapRunning
  IN IF s0.destination = DESTINATION_TYPE_NIL
     THEN harvestReturned(s0, FALSE)
     ELSE IF f \/ ~running
     THEN harvestCaught(s0, eng, f)
     ELSE IF s0.destination = DESTINATION_TYPE_LOCAL_FILE
     THEN IF FileOf(s0, eng) = 0
          THEN harvestCaught(s0, eng, FALSE)
          ELSE spawn(s0, Task(fn, "encode", FileOf(s0, eng), <<>>, 0))
     ELSE IF m
     THEN harvestCaught(s0, eng, TRUE)
     ELSE LET s1 == recorded(s0, eng, EnginePprofProfile,
                      _recordSamples(IF eng = "cpu" THEN "ProfileCPU" ELSE "ProfileHeap",
                                     s0.harvestSeq, EnginePprofProfile, s0.destination))
          IN IF eng = "cpu" /\ s0.destination = DESTINATION_TYPE_INGEST_MELT
             THEN harvestReturned(cpuStamped(s1, s0.harvestSeq), TRUE)
             ELSE harvestReturned(s1, FALSE)

\* `await encode(profile)` settles (part_000 164, 206), then write is called
\* on the handle: a handle without its descriptor refuses it (EBADF); a handle
\* whose close waits for a pending write accepts it.
collect_encoded(s, task, f) ==
  LET eng == EngineOf(task.fn) IN
  IF f \/ ~IsOpen(s, task.h)
  THEN harvestCaught(s, eng, f)
  ELSE spawn(s, Task(task.fn, "write", task.h, <<>>, 0))

\* Mutant: the rotated file is named after the harvest sequence number the
\* counter will have once this harvest is counted.
collect_closed_nextSeq(s, task, f) ==
  LET eng == EngineOf(task.fn) IN
  IF f
  THEN harvestCaught(s, eng, TRUE)
  ELSE spawn(s, Task(task.fn, "open", 0,
                     FileName(s.outputDirectory, eng, s.harvestSeq + 1), 0))

\* `await this.cpuFile.close()` settles, then open(cpu.pprof<harvestSeq>) is called.
collect_closed(s, task, f) ==
  LET eng == EngineOf(task.fn) IN
  IF f
  THEN harvestCaught(s, eng, TRUE)
  ELSE spawn(s, Task(task.fn, "open", 0,
                     FileName(s.outputDirectory, eng, s.harvestSeq), 0))

\* `await this.cpuFile.write(...)` settles: the write on the handle has ended.
\* Then this.cpuFile.close() is called on the handle the field holds by then;
\* the close of a handle without its descriptor is resolved already, and the
\* function goes on to the open.
collect_written(s, task, f) ==
  LET eng == EngineOf(task.fn)
      s0 == FileHandle_unref(s, task.h)
      h == FileOf(s0, eng)
  IN IF f
     THEN harvestCaught(s0, eng, TRUE)
     ELSE IF IsOpen(s0, h)
     THEN FileHandle_close(s0, h, Task(task.fn, "close", h, <<>>, 0))
     ELSE collect_closed(s0, Task(task.fn, "close", h, <<>>, 0), FALSE)

\* The function task, which awaits the close promise of a handle, goes on
\* after the promise has settled; f: it was rejected.
closeAwaited(s, task, f) ==
  CASE task.pc = "close" -> collect_closed(s, task, f)
    [] task.pc = "close.cpu" ->
         IF f THEN reject(s, task.fn)
         ELSE closeLocalFiles_heap(s, task.fn, task.arg)
    [] OTHER ->
         IF f THEN reject(s, task.fn)
         ELSE afterCloseLocalFiles(s, task.fn, task.arg)

\* The close promise of h settles: the functions that await it go on, in the
\* order in which they called close().
RECURSIVE closeSettles(_, _, _)
closeSettles(s, h, f) ==
  IF s.handles[h].closing = <<>>
  THEN s
  ELSE LET task == Head(s.handles[h].closing)
           s0 == resume([s EXCEPT !.handles[h].closing = Tail(@)], task)
       IN closeSettles(closeAwaited(s0, task, f), h, f)

\* The close of h ends, f: with an error.
FileHandle_closed(s, h, f) ==
  closeSettles([s EXCEPT !.handles[h].closed = ~f], h, f)

\* `this.cpuFile = await open(..., 'ax')` settles; the function returns and the
\* timer function increments harvestSeq.
collect_opened(s, task, f) ==
  LET eng == EngineOf(task.fn) IN
  IF f \/ Exists(s, task.name)
  THEN harvestCaught([s EXCEPT !.hist.nameCollision = @ \/ (~f /\ Exists(s, task.name))],
                     eng, f)
  ELSE LET s1 == [s EXCEPT !.handles = Append(@, FileHandle(task.name))]
           id == Len(s1.handles)
           s2 == IF eng = "cpu" THEN [s1 EXCEPT !.cpuFile = id]
                 ELSE [s1 EXCEPT !.heapFile = id]
       IN harvestReturned(s2, FALSE)

\* ------------------------------------------------ pprof: actions
afterStart_pprof ==
  /\ variant = "pprof"
  /\ startState = "idle"
  /\ \E f1 \in FaultChoice, f2 \in FaultChoice :
       /\ ~(f1 /\ f2)
       /\ f1 => HasCpu(Cur)
       /\ f2 => HasHeap(Cur)
       /\ Apply(start_pprof([Cur EXCEPT !.faults = IF f1 \/ f2 THEN @ + 1 ELSE @], f1, f2))

afterStop_pprof ==
  /\ variant = "pprof"
  /\ stopState = "idle"
  /\ \E f1 \in FaultChoice, f2 \in FaultChoice :
       /\ ~(f1 /\ f2)
       /\ f1 => HasCpu(Cur) /\ cpuRunning
       /\ f2 => HasHeap(Cur) /\ ~(HasCpu(Cur) /\ ~cpuRunning)
       /\ Apply(stop_pprof([Cur EXCEPT !.faults = IF f1 \/ f2 THEN @ + 1 ELSE @,
                                        !.hist.stopDuringStart = (startState = "pending")],
                            f1, f2))

HasTask(t, pcs) == variant = "pprof" /\ t \in BagToSet(tasks) /\ t.pc \in pcs

\* `await open(cpu.pprof, 'ax')` of _openLocalFiles settles.
openLocalFiles_cpuOpened ==
  \E t \in BagToSet(tasks), f \in FaultChoice :
    /\ HasTask(t, {"open.cpu"})
    /\ LET s0 == resume([Cur EXCEPT !.faults = IF f THEN @ + 1 ELSE @], t) IN
       Apply(IF f \/ Exists(s0, t.name)
             THEN reject(s0, t.fn)
             ELSE openLocalFiles_heap(
                    [s0 EXCEPT !.handles = Append(@, FileHandle(t.name)),
                               !.cpuFile = Len(s0.handles) + 1], t.fn))

\* `await open(heap.pprof, 'ax')` of _openLocalFiles settles.
openLocalFiles_heapOpened ==
  \E t \in BagToSet(tasks), f \in FaultChoice :
    /\ HasTask(t, {"open.heap"})
    /\ LET s0 == resume([Cur EXCEPT !.faults = IF f THEN @ + 1 ELSE @], t) IN
       Apply(IF f \/ Exists(s0, t.name)
             THEN reject(s0, t.fn)
             ELSE afterOpenLocalFiles(
                    [s0 EXCEPT !.handles = Append(@, FileHandle(t.name)),
                               !.heapFile = Len(s0.handles) + 1], t.fn))

\* The close of a CPU profile file ends: `await this.cpuFile.close()` settles
\* in _closeLocalFiles (part_000 284) and in _collectCpuSamples (165).
cpuFile_closed ==
  \E h \in DOMAIN handles, f \in FaultChoice :
    /\ variant = "pprof"
    /\ handles[h].name[2] = "cpu"
    /\ Closing(Cur, h)
    /\ Apply(FileHandle_closed([Cur EXCEPT !.faults = IF f THEN @ + 1 ELSE @], h, f))

\* The close of a heap profile file ends: `await this.heapFile.close()`
\* settles in _closeLocalFiles (part_000 288) and in _collectHeapSamples (207).
heapFile_closed ==
  \E h \in DOMAIN handles, f \in FaultChoice :
    /\ variant = "pprof"
    /\ handles[h].name[2] = "heap"
    /\ Closing(Cur, h)
    /\ Apply(FileHandle_closed([Cur EXCEPT !.faults = IF f THEN @ + 1 ELSE @], h, f))

call_setProfileDestination ==
  /\ variant = "pprof"
  /\ startState = "ok"
  /\ destOps < MaxDestOps
  /\ \E d \in 0..3 : Apply(_setProfileDestination(Cur, d))

call_setOutputDirectory ==
  /\ variant = "pprof"
  /\ startState = "ok"
  /\ destOps < MaxDestOps
  /\ \E dir \in 1..2 : Apply(_setOutputDirectory(Cur, dir))

HarvestFaults(s, eng, f, m) ==
  /\ ~(f /\ m)
  /\ f => /\ s.destination # DESTINATION_TYPE_NIL
          /\ IF eng = "cpu" THEN s.cpuRunning ELSE s.heapRunning
  /\ m => /\ s.destination \in {DESTINATION_TYPE_INGEST_OTEL, DESTINATION_TYPE_INGEST_MELT}
          /\ IF eng = "cpu" THEN s.cpuRunning ELSE s.heapRunning

_harvestCpuSamples_pprof ==
  /\ variant = "pprof"
  /\ cpuTimer
  /\ fired < MaxHarvests
  /\ \E f \in FaultChoice, m \in FaultChoice :
       /\ HarvestFaults(Cur, "cpu", f, m)
       /\ Apply(collectSamples_pprof(
                  [Cur EXCEPT !.faults = IF f \/ m THEN @ + 1 ELSE @], "cpu", f, m))

_harvestHeapSamples_pprof ==
  /\ variant = "pprof"
  /\ heapTimer
  /\ fired < MaxHarvests
  /\ \E f \in FaultChoice, m \in FaultChoice :
       /\ HarvestFaults(Cur, "heap", f, m)
       /\ Apply(collectSamples_pprof(
                  [Cur EXCEPT !.faults = IF f \/ m THEN @ + 1 ELSE @], "heap", f, m))

\* _collectCpuSamples: `await encode(profile)` settles.
collectCpuSamples_encoded ==
  \E t \in BagToSet(tasks), f \in FaultChoice :
    /\ HasTask(t, {"encode"})
    /\ t.fn = "_collectCpuSamples"
    /\ Apply(collect_encoded(resume([Cur EXCEPT !.faults = IF f THEN @ + 1 ELSE @], t), t, f))

\* _collectCpuSamples: `await this.cpuFile.write(...)` settles.
collectCpuSamples_written ==
  \E t \in BagToSet(tasks), f \in FaultChoice :
    /\ HasTask(t, {"write"})
    /\ t.fn = "_collectCpuSamples"
    /\ Apply(collect_written(resume([Cur EXCEPT !.faults = IF f THEN @ + 1 ELSE @], t), t, f))

\* _collectCpuSamples: `await open(cpu.pprof<harvestSeq>, 'ax')` settles.
collectCpuSamples_opened ==
  \E t \in BagToSet(tasks), f \in FaultChoice :
    /\ HasTask(t, {"open"})
    /\ t.fn = "_collectCpuSamples"
    /\ Apply(collect_opened(resume([Cur EXCEPT !.faults = IF f THEN @ + 1 ELSE @], t), t, f))

\* _collectHeapSamples: `await encode(profile)` settles.
collectHeapSamples_encoded ==
  \E t \in BagToSet(tasks), f \in FaultChoice :
    /\ HasTask(t, {"encode"})
    /\ t.fn = "_collectHeapSamples"
    /\ Apply(collect_encoded(resume([Cur EXCEPT !.faults = IF f THEN @ + 1 ELSE @], t), t, f))

\* _collectHeapSamples: `await this.heapFile.write(...)` settles.
collectHeapSamples_written ==
  \E t \in BagToSet(tasks), f \in FaultChoice :
    /\ HasTask(t, {"write"})
    /\ t.fn = "_collectHeapSamples"
    /\ Apply(collect_written(resume([Cur EXCEPT !.faults = IF f THEN @ + 1 ELSE @], t), t, f))

\* _collectHeapSamples: `await open(heap.pprof<harvestSeq>, 'ax')` settles.
collectHeapSamples_opened ==
  \E t \in BagToSet(tasks), f \in FaultChoice :
    /\ HasTask(t, {"open"})
    /\ t.fn = "_collectHeapSamples"
    /\ Apply(collect_opened(resume([Cur EXCEPT !.faults = IF f THEN @ + 1 ELSE @], t), t, f))

NextPprof ==
  \/ afterStart_pprof
  \/ afterStop_pprof
  \/ openLocalFiles_cpuOpened
  \/ openLocalFiles_heapOpened
  \/ cpuFile_closed
  \/ heapFile_closed
  \/ _harvestCpuSamples_pprof
  \/ _harvestHeapSamples_pprof
  \/ collectCpuSamples_encoded
  \/ collectCpuSamples_written
  \/ collectCpuSamples_opened
  \/ collectHeapSamples_encoded
  \/ collectHeapSamples_written
  \/ collectHeapSamples_opened

NextInspector ==
  \/ afterStart
  \/ afterStop
  \/ afterSetSamplingInterval
  \/ afterEnableCpuProfiler
  \/ afterStartCpuProfiler
  \/ afterEnableHeapProfiler
  \/ afterStartHeapProfiler
  \/ afterStopCpuProfiler
  \/ afterDisableCpuProfiler
  \/ afterStopHeapProfiler
  \/ afterDisableHeapProfiler
  \/ nextTick
  \/ _harvestCpuSamples
  \/ _harvestHeapSamples
  \/ harvest_afterStopCpuProfiler
  \/ harvest_afterStartCpuProfiler
  \/ afterGetSamplingProfile

\* The state after initialize, with the configured destination among dests,
\* at time t0 of the clock.
InitWith(dests, t0) ==
  /\ variant \in {"inspector", "pprof"}
  /\ selectedProfiles \in 0..3
  /\ harvestSeq = 0
  /\ cpuTimer = FALSE
  /\ heapTimer = FALSE
  /\ cpuEnabled = FALSE
  /\ cpuRunning = FALSE
  /\ heapRunning = FALSE
  /\ session = "none"
  /\ queue = <<>>
  /\ destination \in IF variant = "pprof" THEN dests ELSE {DESTINATION_TYPE_NIL}
  /\ outputDirectory = 1
  /\ cpuFile = 0
  /\ heapFile = 0
  /\ handles = <<>>
  /\ tasks = EmptyBag
  /\ ticks = <<>>
  /\ startState = "idle"
  /\ stopState = "idle"
  /\ faults = 0
  /\ fired = 0
  /\ destOps = 0
  /\ now = t0
  /\ heapSampleStartTime = 0
  /\ snapshot = NoSnapshot
  /\ events = <<>>
  /\ hist = HistInit

\* _parseDestination (part_000 313-330) yields nil, local file or MELT.
Init ==
  InitWith({DESTINATION_TYPE_NIL, DESTINATION_TYPE_LOCAL_FILE,
            DESTINATION_TYPE_INGEST_MELT}, 0)

\* The program as initialize wires it: start, stop and the two timers.
Next == NextInspector \/ NextPprof

Spec == Init /\ [][Next]_vars

\* The pprof variant with a caller of the destination mutations, which the
\* source defines and never calls; one engine selected.
InitDest == Init /\ variant = "pprof" /\ selectedProfiles \in {1, 2}

NextDest ==
  \/ NextPprof
  \/ call_setProfileDestination
  \/ call_setOutputDirectory

SpecDest == InitDest /\ [][NextDest]_vars

\* ------------------------------------------------ marshalling: the calls
\* _collectCpuSamples (index.js 307-313): the snapshot is marshalled and every
\* event handed to the sink.
call_marshalCpuProfileToEvents ==
  /\ variant = "inspector"
  /\ snapshot = NoSnapshot
  /\ \E p \in CpuSnapshots :
       Apply([Cur EXCEPT !.snapshot = p,
                         !.hist.marshalled = "cpu",
                         !.events = recordCustomEvents("ProfileCPU",
                                      _marshalCpuProfileToEvents(harvestSeq, p))])

\* _collectHeapSamples (index.js 351-361)
call_marshalHeapSamplingProfileToEvents ==
  /\ variant = "inspector"
  /\ snapshot = NoSnapshot
  /\ \E p \in HeapSnapshots :
       \E dateNow \in ClockReadings(now, Len(p.profile.samples)) :
         Apply([Cur EXCEPT !.snapshot = p,
                           !.now = IF dateNow = <<>> THEN @ ELSE dateNow[Len(dateNow)],
                           !.hist.marshalled = "heap",
                           !.hist.heapReadAt = dateNow,
                           !.events = recordCustomEvents("ProfileHeap",
                                        _marshalHeapSamplingProfileToEvents(
                                          harvestSeq, heapSampleStartTime, p, dateNow))])

\* _collectCpuSamples / _collectHeapSamples (part_000 176-182, 218-224)
call_recordSamples ==
  /\ variant = "pprof"
  /\ snapshot = NoSnapshot
  /\ \E p \in PprofSnapshots, eng \in {"cpu", "heap"} :
       Apply([Cur EXCEPT !.snapshot = p,
                         !.hist.marshalled = eng,
                         !.events = _recordSamples(
                                      IF eng = "cpu" THEN "ProfileCPU" ELSE "ProfileHeap",
                                      harvestSeq, p, destination)])

\* The marshallers on every snapshot.  The pprof variant is configured with
\* the ingestion destination _parseDestination (part_000 313-330) yields,
\* MELT.  The clock is one millisecond short of its bound: it can move once
\* during a marshalling.
InitMarshal ==
  /\ InitWith({DESTINATION_TYPE_INGEST_MELT}, MaxClock - 1)
  /\ selectedProfiles = 3

NextMarshal ==
  \/ call_marshalCpuProfileToEvents
  \/ call_marshalHeapSamplingProfileToEvents
  \/ call_recordSamples

SpecMarshal == InitMarshal /\ [][NextMarshal]_vars

\* ================================================================ properties
Range(f) == {f[i] : i \in DOMAIN f}

InFlight(eng) ==
  IF variant = "inspector" THEN InFlightInspector(queue, eng)
  ELSE InFlightPprof(tasks, eng)

\* stop() of the agent has completed: its callback ran or its promise settled.
StopCompleted == stopState \in {"done", "err"}

\* A harvest is at its write or close of a handle that another operation is
\* closing at this moment.
FileRace ==
  \E h \in BagToSet(tasks), c \in BagToSet(tasks) :
    /\ h.fn \in {"_collectCpuSamples", "_collectHeapSamples"}
    /\ h.pc \in {"write", "close"}
    /\ c.fn \notin {"_collectCpuSamples", "_collectHeapSamples"}
    /\ c.pc \in {"close.cpu", "close.heap"}
    /\ c.h = h.h

\* C1: when the heap engine fails to start after the CPU engine started, the
\* caller of start() observes the error with the CPU engine already stopped,
\* no harvest trigger armed and nothing running.
C1_RollbackBeforeError ==
  (startState = "err" /\ hist.startFailedAt = "heap" /\ HasCpu(Cur))
    => (~cpuRunning /\ ~heapRunning /\ ~cpuTimer /\ ~heapTimer)

\* C2: harvestSeq equals the number of harvests that completed successfully:
\* each of them incremented it once, and no failed or abandoned harvest
\* changed it.
C2_SeqCountsCompletedHarvests == harvestSeq = hist.okHarvests

\* C2 witness: the counter stands at two after two completed harvests and a
\* failed one.
C2_Witness == harvestSeq = 2 /\ hist.okHarvests = 2 /\ hist.failedHarvests = 1

\* C3 as stated: the harvest_seq values of any two consecutive successful CPU
\* harvests differ by exactly 1.
C3_ConsecutiveCpuDifferByOne == \A g \in hist.gaps : g[1] = 1

\* C3 amended: the harvest_seq values of two consecutive successful CPU
\* harvests differ by exactly 1 plus the number of other harvests (of the heap
\* engine, or CPU harvests that emit no record) completed between them.
C3_ConsecutiveCpuDifferByOnePlusOthers == \A g \in hist.gaps : g[1] = 1 + g[2]

\* C3 witness: two consecutive successful CPU harvests with another harvest
\* completed between them.
C3_Witness == \E g \in hist.gaps : g[2] >= 1

\* C4: once stop() has completed, both triggers are cancelled and no harvest
\* begins any more.
C4_NoHarvestAfterStop ==
  StopCompleted => (~cpuTimer /\ ~heapTimer /\ ~hist.beganAfterStop)

\* C5: at most one harvest per engine is in flight at any time.
C5_OneHarvestInFlight == InFlight("cpu") <= 1 /\ InFlight("heap") <= 1

\* C6: when an engine fails to stop during stop(), the failure is logged and
\* not propagated, the other engine's stop is still attempted, both triggers
\* are cleared and the session and the local files are released.
C6_StopToleratesEngineFailure ==
  (StopCompleted /\ hist.stopFailed # {}) =>
    /\ stopState = "done"
    /\ \A eng \in hist.stopFailed :
         (IF eng = "cpu" THEN "stop.cpu" ELSE "stop.heap") \in hist.logged
    /\ HasCpu(Cur) => "cpu" \in Range(hist.stopOrder["agent"])
    /\ HasHeap(Cur) => "heap" \in Range(hist.stopOrder["agent"])
    /\ ~cpuTimer /\ ~heapTimer
    /\ session # "connected"
    /\ \A i \in DOMAIN handles : handles[i].closed

IsPrefix(a, b) == Len(a) <= Len(b) /\ a = SubSeq(b, 1, Len(a))

CpuThenHeap ==
  (IF HasCpu(Cur) THEN <<"cpu">> ELSE <<>>) \o (IF HasHeap(Cur) THEN <<"heap">> ELSE <<>>)

HeapThenCpu ==
  (IF HasHeap(Cur) THEN <<"heap">> ELSE <<>>) \o (IF HasCpu(Cur) THEN <<"cpu">> ELSE <<>>)

\* start() issues the starts of the selected engines in the order CPU, heap.
StartsCpuFirst == IsPrefix(hist.startOrder, CpuThenHeap)

\* C7 as stated: start() enables CPU then heap and stop() disables in the
\* reverse order, the heap engine's stop being issued before the CPU engine's.
C7_StopsInReverseOrder ==
  /\ StartsCpuFirst
  /\ \A o \in DOMAIN hist.stopOrder : IsPrefix(hist.stopOrder[o], HeapThenCpu)

\* C7 amended: start() enables CPU then heap and stop() disables them in the
\* same order, the CPU engine's stop being issued before the heap engine's.
C7_StopsInStartOrder ==
  /\ StartsCpuFirst
  /\ \A o \in DOMAIN hist.stopOrder : IsPrefix(hist.stopOrder[o], CpuThenHeap)

\* C7 witness: both engines were started and both were stopped by stop().
C7_Witness ==
  /\ hist.startOrder = <<"cpu", "heap">>
  /\ hist.stopOrder["agent"] = <<"cpu", "heap">>

\* C8: a harvest that fails leaves the trigger armed and the next harvest
\* proceeds normally: run alone, with the engine and the destination answering
\* normally and nobody stopping the profiler, a harvest does not fail.
C8_NextHarvestProceeds == ~hist.cleanFailure

\* C9: no failure during start(), stop() or a harvest escapes as an uncaught
\* exception or an unhandled rejection.
C9_NothingEscapes == ~hist.escaped

\* C10: no harvest writes to or closes a file handle that another operation is
\* closing at that moment.
C10_NoFileRace == ~FileRace

\* C11: when _setOutputDirectory enters the local-file destination while the
\* profiler runs, no harvest begins with destination = local file before the
\* switch has settled while the engine's file handle is missing, closed or
\* being closed.
C11_FreshFilesBeforeHarvest == ~hist.unreadyHarvest

\* C12: when _setProfileDestination leaves the local-file destination, every
\* local file is closed at the moment the destination field takes its new
\* value, and a harvest that begins with the new destination in effect starts
\* no write to a local file.
C12_ClosedBeforeLeaving ==
  [][/\ (destination = DESTINATION_TYPE_LOCAL_FILE
          /\ destination' # DESTINATION_TYPE_LOCAL_FILE)
         => \A i \in DOMAIN handles' : handles'[i].closed
     /\ (destination # DESTINATION_TYPE_LOCAL_FILE /\ fired' = fired + 1)
         => \A t \in BagToSet(tasks') :
              t.pc \in {"encode", "write"}
                => t \in BagToSet(tasks) /\ tasks'[t] = tasks[t]]_vars

\* The files of eng created so far, in the order of their creation.
FilesOf(eng) == SelectSeq(handles, LAMBDA h : h.name[2] = eng)

\* The first file of each engine has the base name and every later one a
\* sequence number as suffix.
BaseNameFirst ==
  \A eng \in {"cpu", "heap"} : \A i \in DOMAIN FilesOf(eng) :
    (FilesOf(eng)[i].name[3] = -1) <=> (i = 1)

\* C13 as stated: the first file of each engine has the base name and a
\* CPU-only run produces cpu.pprof, cpu.pprof1, cpu.pprof2, ... in that order.
C13_RotatedSuffixFromOne ==
  /\ BaseNameFirst
  /\ selectedProfiles = PROFILING_TYPE_CPU =>
       \A i \in DOMAIN handles : i >= 2 => handles[i].name[3] = i - 1

\* C13 amended: the first file of each engine has the base name; a file
\* opened on rotation carries the value harvestSeq had before the harvest
\* that opened it was counted, so a CPU-only run produces cpu.pprof,
\* cpu.pprof0, cpu.pprof1, ... in that order.
C13_RotatedSuffixFromZero ==
  /\ BaseNameFirst
  /\ \A i \in DOMAIN handles : handles[i].name[3] < harvestSeq
  /\ selectedProfiles = PROFILING_TYPE_CPU =>
       \A i \in DOMAIN handles : i >= 2 => handles[i].name[3] = i - 2

\* C13 witness: a CPU-only run has rotated its file twice.
C13_Witness == selectedProfiles = PROFILING_TYPE_CPU /\ Len(handles) = 3

\* ------------------------------------------------ the snapshot, as a tree

\* The nodes of a heap snapshot below and including node.
RECURSIVE FlatHeap(_)
FlatHeap(node) ==
  {[id |-> node.id, selfSize |-> node.selfSize, callFrame |-> node.callFrame,
    kids |-> {node.children[c].id : c \in DOMAIN node.children}]}
  \cup UNION {FlatHeap(node.children[c]) : c \in DOMAIN node.children}

\* The nodes of the inspector's snapshot, each with the ids of its children.
TreeNodes ==
  IF snapshot.kind = "cpu"
  THEN {[id |-> n.id, selfSize |-> 0, callFrame |-> n.callFrame,
         kids |-> Range(n.children)] : n \in Range(snapshot.nodes)}
  ELSE IF snapshot.kind = "heap" THEN FlatHeap(snapshot.profile.head)
  ELSE {}

TreeNode(id) == CHOOSE n \in TreeNodes : n.id = id

\* The ids from the root down to id, each a child of the one before it.
RootPath(id) ==
  CHOOSE p \in SeqsUpTo({n.id : n \in TreeNodes}, Cardinality(TreeNodes)) :
    /\ Len(p) >= 1
    /\ p[Len(p)] = id
    /\ \A n \in TreeNodes : p[1] \notin n.kids
    /\ \A i \in 1..(Len(p) - 1) : p[i + 1] \in TreeNode(p[i]).kids

\* The node sample k (from 1) of the inspector's snapshot refers to.
SampleNode(k) ==
  IF snapshot.kind = "cpu" THEN snapshot.samples[k]
  ELSE snapshot.profile.samples[k].nodeId

\* `${functionName}:${lineNumber}` of a node, '(unknown)' for no name.
FrameOf(id) ==
  <<IF TreeNode(id).callFrame.functionName = "" THEN "(unknown)"
    ELSE TreeNode(id).callFrame.functionName,
    TreeNode(id).callFrame.lineNumber>>

\* C14: for every sample of a linked snapshot whose node-to-root chain has
\* depth d, the record carries exactly the keys location.0 .. location.(d-1),
\* location.0 being the root frame and location.(d-1) the sample's own frame,
\* each valued functionName:lineNumber of its node on the chain.
C14_LocationsAreRootPath ==
  snapshot.kind \in {"cpu", "heap"} =>
    \A k \in DOMAIN events :
      LET p == RootPath(SampleNode(k))
          location == events[k].attrs.location
      IN /\ DOMAIN location = 0..(Len(p) - 1)
         /\ \A j \in DOMAIN location : location[j] = FrameOf(p[j + 1])

\* A CPU sample three frames deep, below a node that has no function name.
C14_Witness ==
  /\ snapshot.kind = "cpu"
  /\ \E k \in DOMAIN events :
       /\ DOMAIN events[k].attrs.location = 0..2
       /\ events[k].attrs.location[1][1] = "(unknown)"
       /\ events[k].attrs.location[2] = <<"bar", 20>>

\* The stack depth of sample k (from 1) of the latest snapshot.
StackDepth(k) ==
  IF snapshot.kind = "pprof" THEN Len(snapshot.sample[k].locationId)
  ELSE Len(RootPath(SampleNode(k)))

\* C15: an emitted record never contains a key location.N with N greater than
\* or equal to the stack depth of the sample it is emitted for, whatever the
\* depth of the samples before it.
C15_NoLocationBeyondDepth ==
  \A k \in DOMAIN events :
    \A N \in DOMAIN events[k].attrs.location : N < StackDepth(k)

\* A pprof record of a one-frame sample that follows a three-frame sample.
C15_Witness ==
  /\ snapshot.kind = "pprof"
  /\ \E k \in DOMAIN events :
       /\ k > 1
       /\ DOMAIN events[k - 1].attrs.location = 0..2
       /\ StackDepth(k) = 1
       /\ DOMAIN events[k].attrs.location = {0}

RECURSIVE SumSeq(_)
SumSeq(q) == IF q = <<>> THEN 0 ELSE Head(q) + SumSeq(Tail(q))

\* The deltas the samples before sample i (from 0) have taken from timeDeltas.
ConsumedBefore(i) ==
  LET last == IF i + 1 <= Len(snapshot.timeDeltas) THEN i + 1
              ELSE Len(snapshot.timeDeltas)
  IN SubSeq(snapshot.timeDeltas, 2, last)

\* C16: sample i takes timeDeltas[i+1] as its delta whenever that entry
\* exists; a sample with no such entry takes the floor of the arithmetic mean
\* of the deltas consumed so far; cpu_nanoseconds and
\* sample_period_cpu_nanoseconds both equal that delta times 1000.
C16_CpuDeltaRule ==
  snapshot.kind = "cpu" =>
    \A k \in DOMAIN events :
      LET i == k - 1
          a == events[k].attrs
      IN /\ a.sample_period_cpu_nanoseconds = a.cpu_nanoseconds
         /\ i + 2 <= Len(snapshot.timeDeltas)
              => a.cpu_nanoseconds = snapshot.timeDeltas[i + 2] * 1000
         /\ (i + 2 > Len(snapshot.timeDeltas) /\ ConsumedBefore(i) # <<>>)
              => a.cpu_nanoseconds
                   = (SumSeq(ConsumedBefore(i)) \div Len(ConsumedBefore(i))) * 1000

\* timeDeltas = [5, 8, 5] and three samples: 8000, 5000 and floor(13 / 2) * 1000.
C16_Witness ==
  /\ snapshot.kind = "cpu"
  /\ snapshot.timeDeltas = <<5, 8, 5>>
  /\ Len(events) = 3
  /\ events[1].attrs.cpu_nanoseconds = 8000
  /\ events[2].attrs.cpu_nanoseconds = 5000
  /\ events[3].attrs.cpu_nanoseconds = 6000

\* The heap tree below node, the selfSize of the node id changed by d.
RECURSIVE WithSelfSize(_, _, _)
WithSelfSize(node, id, d) ==
  [node EXCEPT !.selfSize = IF node.id = id THEN @ + d ELSE @,
               !.children = [c \in DOMAIN @ |-> WithSelfSize(@[c], id, d)]]

SizeChanges == {-1, 3}

\* C17: the inclusive size written to inuse_space_bytes is the sum of selfSize
\* over exactly the nodes from the sample's node up to and including the root;
\* changing the selfSize of a node on that chain by d changes the sample's
\* size by exactly d, and changing a node off the chain changes nothing.
C17_InclusiveSizeIsChainSum ==
  snapshot.kind = "heap" =>
    \A k \in DOMAIN events :
      LET p == RootPath(SampleNode(k))
          size == events[k].attrs.inuse_space_bytes
      IN /\ size = SumSeq([j \in DOMAIN p |-> TreeNode(p[j]).selfSize])
         /\ \A n \in TreeNodes, d \in SizeChanges :
              LET changed == _marshalHeapSamplingProfileToEvents(
                               harvestSeq, heapSampleStartTime,
                               [snapshot EXCEPT !.profile.head = WithSelfSize(@, n.id, d)],
                               hist.heapReadAt)
              IN changed[k].inuse_space_bytes
                   = size + (IF n.id \in Range(p) THEN d ELSE 0)

\* A sample at node 3 below the root, node 2 being off its chain: 4 + 1 bytes.
C17_Witness ==
  /\ snapshot.kind = "heap"
  /\ Cardinality(TreeNodes) = 3
  /\ \E k \in DOMAIN events :
       /\ SampleNode(k) = 3
       /\ RootPath(3) = <<1, 3>>
       /\ events[k].attrs.inuse_space_bytes = 5

\* The samples of the latest snapshot.
Samples ==
  IF snapshot.kind = "pprof" THEN snapshot.sample
  ELSE IF snapshot.kind = "cpu" THEN snapshot.samples
  ELSE IF snapshot.kind = "heap" THEN snapshot.profile.samples
  ELSE <<>>

\* C18: for every successful harvest whose destination is an ingestion
\* protocol, recordCustomEvent is called exactly once per sample of the
\* snapshot, in sample order, with event type ProfileCPU for a CPU harvest and
\* ProfileHeap for a heap harvest, and with sample_seq the sample's index.
C18_OneEventPerSample ==
  (/\ hist.marshalled # "none"
   /\ variant = "pprof" => destination \in {DESTINATION_TYPE_INGEST_OTEL,
                                            DESTINATION_TYPE_INGEST_MELT})
    => /\ Len(events) = Len(Samples)
       /\ \A k \in DOMAIN events :
            /\ events[k].type = IF hist.marshalled = "cpu" THEN "ProfileCPU"
                                ELSE "ProfileHeap"
            /\ events[k].attrs.sample_seq = k - 1

\* C18 witness: a heap harvest of the pprof variant with destination MELT has
\* handed over a snapshot of two samples as two ProfileHeap events.
C18_Witness ==
  /\ variant = "pprof"
  /\ destination = DESTINATION_TYPE_INGEST_MELT
  /\ hist.marshalled = "heap"
  /\ Len(Samples) = 2
  /\ Len(events) = 2
  /\ events[1].type = "ProfileHeap"
  /\ events[2].attrs.sample_seq = 1

\* The metric keys of the two sample types of the snapshots: "a_b" for type
\* "a" with unit "b", and "_c_b" for type " c" with unit "b".
SampleTypeKeys == << <<"a", "_", "b">>, <<"_", "c", "_", "b">> >>

\* C20: the metric keys on an emitted record are exactly those written for the
\* current sample's values, each with that sample's value: a key written for
\* an earlier sample and not rewritten for the current one is gone.
C20_MetricKeysOfCurrentSample ==
  snapshot.kind = "pprof" =>
    \A k \in DOMAIN events :
      LET value == snapshot.sample[events[k].attrs.sample_seq + 1].value
          metrics == events[k].attrs.metrics
      IN /\ DOMAIN metrics = {SampleTypeKeys[j] : j \in DOMAIN value}
         /\ \A j \in DOMAIN value : metrics[SampleTypeKeys[j]] = value[j]

\* A record with one value that follows a record with two.
C20_Witness ==
  /\ snapshot.kind = "pprof"
  /\ \E k \in DOMAIN events :
       /\ k > 1
       /\ DOMAIN events[k - 1].attrs.metrics = {SampleTypeKeys[1], SampleTypeKeys[2]}
       /\ DOMAIN events[k].attrs.metrics = {SampleTypeKeys[1]}

\* ------------------------------------------------ the heap harvests in time
\* The inspector variant with the heap engine selected, and the clock.
InitClock ==
  /\ Init
  /\ variant = "inspector"
  /\ selectedProfiles = PROFILING_TYPE_HEAP

NextClock ==
  \/ afterStart
  \/ afterStop
  \/ afterEnableHeapProfiler
  \/ afterStartHeapProfiler
  \/ afterStopHeapProfiler
  \/ afterDisableHeapProfiler
  \/ nextTick
  \/ _harvestHeapSamples
  \/ afterGetSamplingProfile
  \/ tick

SpecClock == InitClock /\ [][NextClock]_vars

\* The records of the latest heap harvest are the latest the sink received.
HeapRecords ==
  IF hist.marshalled = "heap" /\ hist.heapHarvestedAt # <<>> THEN DOMAIN events ELSE {}

\* Date.now() when the k-th record of the latest heap harvest was marshalled.
ReadAt(k) == hist.heapReadAt[k]

\* Date.now() at the end of the latest heap harvest, its records handed over.
HarvestedAt == hist.heapHarvestedAt[Len(hist.heapHarvestedAt)]

\* Date.now() when the measuring period of the latest heap harvest began: the
\* start of the engine, or the end of the heap harvest recorded before it.
PeriodBegan ==
  IF Len(hist.heapHarvestedAt) = 1 THEN hist.heapStartedAt
  ELSE hist.heapHarvestedAt[Len(hist.heapHarvestedAt) - 1]

\* C19 as stated: every heap record of every harvest carries time_ns of the
\* time recorded when the heap engine was started, and a duration_ns measured
\* from that time to the harvest.
C19_TimeFromEngineStart ==
  \A k \in HeapRecords :
    /\ events[k].attrs.time_ns = hist.heapStartedAt * 1000
    /\ events[k].attrs.duration_ns = (ReadAt(k) - hist.heapStartedAt) * 1000

\* C19 amended: the heap records of the first harvest carry the time recorded
\* when the heap engine was started, those of each later harvest the time
\* recorded at the end of the heap harvest before it; duration_ns is measured
\* from that time to the moment the record's sample is marshalled, which lies
\* within the harvest.
C19_TimeFromPeriodStart ==
  \A k \in HeapRecords :
    /\ events[k].attrs.time_ns = PeriodBegan * 1000
    /\ events[k].attrs.duration_ns = (ReadAt(k) - PeriodBegan) * 1000
    /\ PeriodBegan <= ReadAt(k)
    /\ ReadAt(k) <= HarvestedAt

\* A second heap harvest that began where the first, later than the start,
\* ended, with the clock moving between its two samples.
C19_Witness ==
  /\ hist.marshalled = "heap"
  /\ Len(hist.heapHarvestedAt) = 2
  /\ hist.heapStartedAt < hist.heapHarvestedAt[1]
  /\ hist.heapHarvestedAt[1] < hist.heapHarvestedAt[2]
  /\ \A k \in DOMAIN events : events[k].attrs.time_ns = hist.heapHarvestedAt[1] * 1000
  /\ \E k \in DOMAIN events :
       /\ k > 1
       /\ events[k - 1].attrs.duration_ns = 0
       /\ events[k].attrs.duration_ns = 1000

\* start() and stop() have both finished.
BothFinished ==
  /\ startState \in {"ok", "err"}
  /\ stopState \in {"done", "err"}

\* C22: if stop() is invoked while start() is still in progress, then after
\* both calls have finished no harvest trigger is armed and no engine is
\* running.
C22_StopDuringStartLeavesNothing ==
  (hist.stopDuringStart /\ BothFinished)
    => /\ ~cpuTimer
       /\ ~heapTimer
       /\ ~cpuRunning
       /\ ~heapRunning

\* C23: every local file that a harvest opens on rotation has a name that no
\* earlier open of the run used: the exclusive-create open never fails on a
\* name collision.
C23_RotationNamesAreNew == ~hist.nameCollision

\* C24: for every CPU snapshot with at least one sample, cpu_nanoseconds and
\* sample_period_cpu_nanoseconds of every record are defined non-negative
\* integers, also when no delta was consumed before the final sample.
C24_CpuNanosecondsDefined ==
  (snapshot.kind = "cpu" /\ Len(snapshot.samples) >= 1) =>
    \A k \in DOMAIN events :
      /\ events[k].attrs.cpu_nanoseconds # NaN
      /\ events[k].attrs.cpu_nanoseconds >= 0
      /\ events[k].attrs.sample_period_cpu_nanoseconds # NaN
      /\ events[k].attrs.sample_period_cpu_nanoseconds >= 0

\* The contents, after the marshalling, of the object the k-th call handed to
\* the sink: what the object held when it was last handed over.
ContentsNow(k) ==
  LET same == {j \in DOMAIN events : events[j].object = events[k].object}
  IN events[CHOOSE j \in same : \A i \in same : i <= j].attrs

\* C21: each sample's record is created fresh for that sample: once a record
\* has been handed to the sink, marshalling the following samples never
\* changes the contents of that record.
C21_EmittedRecordsKeepContents ==
  \A k \in DOMAIN events :
    /\ \A j \in DOMAIN events : j # k => events[j].object # events[k].object
    /\ ContentsNow(k) = events[k].attrs

============================================================================
